---- MODULE Spec2Model ----
(***************************************************************************)
(* A model of tqm's reconciliation engine: the two overlap indexes         *)
(* (pkg/torrentfilemap, pkg/hardlinkfilemap), the two-phase removal of     *)
(* `clean` (cmd/helpers.go, removeEligibleTorrents), the tracker oracle    *)
(* (pkg/config/torrent.go) and the orphan scanner (cmd/orphan.go).         *)
(***************************************************************************)
EXTENDS Integers, Sequences, FiniteSets, TLC

(***************************************************************************)
(* Bounds of the model.                                                    *)
(***************************************************************************)
NumTorrents == 2
\* longest tracker status of the oracle model, in words
MaxStatusLen == 3
\* the worker pool of the orphan model (maxWorkers = 10, batchSize = 50 in the
\* command) and its clock: one unit of age is five minutes
MaxWorkers == 2
BatchSize == 2
DefaultGrace == 2
\* the queries put to the PTP plugin in one run, each on a goroutine of its own
NumQueries == 2

Hashes == 1..NumTorrents
PtpQueries == 1..NumQueries
\* the declared (absolute) file paths of the clean model
Paths == {"p1", "p2"}
\* stat() of a path: 0 = the stat fails (file missing), i > 0 = device|inode i
Inodes == {1, 2}
\* the disks of the clean model, file ids numbered in order of appearance:
\* both paths missing, one missing, two links of one file, two files
DiskChoices ==
    { [p \in Paths |-> 0],
      [p \in Paths |-> IF p = "p1" THEN 1 ELSE 0],
      [p \in Paths |-> IF p = "p1" THEN 0 ELSE 1],
      [p \in Paths |-> 1],
      [p \in Paths |-> IF p = "p1" THEN 1 ELSE 2] }

\* the run configurations of the clean model: the reference configuration of
\* the scenarios (hardlinks mapped, data deleted, free space known) and every
\* configuration that differs from it in one setting
RefConfig == [dryRun |-> FALSE, deleteData |-> TRUE, bypassIgnore |-> FALSE,
              mapHardlinks |-> TRUE, freeSpaceSet |-> TRUE]
Configs == {RefConfig}
           \cup {[RefConfig EXCEPT !.dryRun = TRUE]}
           \cup {[RefConfig EXCEPT !.deleteData = FALSE]}
           \cup {[RefConfig EXCEPT !.bypassIgnore = TRUE]}
           \cup {[RefConfig EXCEPT !.mapHardlinks = FALSE]}
           \cup {[RefConfig EXCEPT !.freeSpaceSet = FALSE]}

\* Torrent.Downloaded: at most one torrent of the run is still downloading
\* (torrent 1: the file sets range over all assignments, so which one is immaterial)
DownloadedChoices ==
    {d \in [Hashes -> BOOLEAN] : \A h \in Hashes : ~d[h] => h = 1}

\* Torrent.DownloadedBytes of torrent h: distinct powers of two, so that a
\* sum of bytes identifies the set of torrents it was taken over
RECURSIVE Pow2(_)
Pow2(n) == IF n = 0 THEN 1 ELSE 2 * Pow2(n - 1)
DownloadedBytes(h) == Pow2(h - 1)

RECURSIVE SumBytes(_)
SumBytes(S) == IF S = {} THEN 0
               ELSE LET h == CHOOSE x \in S : TRUE
                    IN DownloadedBytes(h) + SumBytes(S \ {h})

VARIABLES
    \* ---- inputs of a clean run (frozen torrent snapshot, configuration) ----
    files,          \* Torrent.Files: hash -> set of declared paths
    downloaded,     \* Torrent.Downloaded
    freeSpaceSet,   \* Torrent.FreeSpaceSet (the client knows its free space)
    flagDryRun,     \* --dry-run
    deleteData,     \* filter.DeleteData (default true)
    bypassIgnore,   \* config.Config.BypassIgnoreIfUnregistered
    mapHardlinks,   \* "clean" is in filter.MapHardlinksFor: real HLI, else no-op HLI
    \* ---- the world outside the process ----
    inode,          \* the disk: path -> stat result
    clientTorrents, \* the torrents the client still holds
    removeCalls,    \* the RemoveTorrent calls issued to the adapter
    \* ---- state of removeEligibleTorrents ----
    pc,             \* position in removeEligibleTorrents
    torrents,       \* the torrents map (keys)
    verdict,        \* per torrent: how the loops left it
    reported,       \* per torrent: what tfm.IsUnique and hfm.IsTorrentUnique answered
    regState,       \* Torrent registration state as answered by IsUnregistered
    tfm,            \* TorrentFileMap.torrentFileMap: path -> set of hashes
    hfm,            \* HardlinkFileMap.hardlinkFileMap: file id -> set of paths
    hardlinkedCandidates,
    fileOverlapCandidates,
    fields,         \* notification fields, one per removal
    ignoredTorrents,
    hardRemoveTorrents,
    errorRemoveTorrents,
    removedTorrentBytes,
    removedCandidates,
    freeSpaceAdded, \* bytes handed to c.AddFreeSpace
    \* ---- one call of Torrent.IsUnregistered ----
    TrackerStatus,  \* Torrent.TrackerStatus, a sequence of words
    TrackerName,    \* Torrent.TrackerName
    trackerApi,     \* what tracker.Get finds and its IsUnregistered answers
    unregPc,        \* position in IsUnregistered
    unregResult,    \* the value returned
    statusMatched,  \* the unregistered-status map was consulted
    apiQueried,     \* the tracker API was queried
    \* ---- a retag run (retagCmd, retagEligibleTorrents) ----
    tagRules,       \* exp.Tags: the compiled tag rules, in order
    Tags,           \* Torrent.Tags per torrent
    UpLimit,        \* Torrent.UpLimit per torrent, bytes/s, -1 = unlimited
    ruleMatch,      \* per torrent and rule: CheckTorrentAllMatch(rule.Updates)
    retagPc,        \* position in retagCmd
    retagPending,   \* torrents the loop has not visited yet
    tagCalls,       \* the write calls issued to the adapter in this run
    retagIgnored,   \* ignoredTorrents of retagEligibleTorrents
    retaggedTorrents,
    errorRetaggedTorrents,
    retagFields,    \* notification fields, one per retag
    retagOutcome,   \* per torrent: how its iteration of this run ended
    firstRun,       \* <<>> in the first run, then what the first run left
    \* ---- an orphan run (orphanCmd) ----
    orphanTfm,      \* the keys of tfm.torrentFileMap: the declared paths
    pathMapping,    \* clientDownloadPathMapping: set of <<mapFrom, mapTo>>
    IgnorePaths,    \* filter.Orphan.IgnorePaths
    GracePeriod,    \* filter.Orphan.GracePeriod
    ModAge,         \* per local file: time.Since(fileInfo.ModTime())
    diskFiles,      \* the files present in the download folder
    diskDirs,       \* the directories present below the download folder
    pathCache,      \* tfm.pathCache: set of <<path, answer>>
    orphanPc,       \* position of the main goroutine
    items,          \* entries of localFilePaths the range has not reached
    batchI,         \* i of processInBatches
    batch,          \* batch of processInBatches
    workerSem,      \* tokens held in workerSem
    wg,             \* the WaitGroup counter
    worker,         \* per local file: position or outcome of its goroutine
    removeFailures,
    removedLocalFiles,
    ignoredLocalFiles,
    removedLocalFilesSize,
    orphanFolderPaths,
    ignoredLocalFolders,
    removedLocalFolders,
    \* ---- the file-overlap index on its own (TorrentFileMap) ----
    foiMap,         \* torrentFileMap: declared path -> set of hashes
    foiRemoved,     \* the torrents whose Remove came before
    foiT,           \* the torrent handed to Add and Remove
    foiPc,          \* which of Add, Remove has been called
    foiBefore,      \* torrentFileMap as it was before Add
    \* ---- the PTP plugin (tracker.PTP) ----
    ptpServer,      \* what the userhistory endpoint answers: an error, nil or a hash list
    ptpHash,        \* per query: torrent.Hash
    ptpCache,       \* unregisteredCache: the keys mapped to true
    ptpFetched,     \* unregisteredFetched
    ptpApiError,    \* apiError
    ptpMux,         \* unregisteredCacheMux: 0 or the query that holds the lock
    ptpPc,          \* per query: position in IsUnregistered
    ptpAnswer,      \* per query: what IsUnregistered returned
    ptpDown,        \* per query: what its call of IsTrackerDown returned
    ptpFetches,     \* number of requests sent to the endpoint
    ptpFailed,      \* a fetch has failed
    \* ---- processInBatches: arguments and calls ----
    maxWorkers,     \* capacity of workerSem
    itemsIn,        \* the keys of the map handed in
    fnCalls,        \* per path: how often processFn was started on it
    dirEmptyErr,    \* isDirEmpty has returned an error in the folder loop
    \* ---- the filter as the phase-1 loop evaluates it ----
    evalIgnores,    \* c.exp.Ignores: the compiled programs, in order
    evalRemoves,    \* c.exp.Removes
    evalSeeds,      \* per torrent: Torrent.Seeds, the field the programs read
    evalFree,       \* c.freeSpaceGB, what the closure FreeSpaceGB returns
    evalDecision,   \* per torrent: how the loop body left it
    evalFreeAt,     \* per torrent: c.freeSpaceGB when it was evaluated
    evalRan,        \* per torrent: how many programs of each list were run
    \* ---- relabel (relabelEligibleTorrents) ----
    relabelDecision, \* per torrent: what c.ShouldRelabel answers
    relabelUnique,   \* per torrent: tfm.IsUnique
    flagCrossSeeds,  \* flagExperimentalRelabelForCrossSeeds
    relabelPc,       \* "idle", "loop", "summary" or "exited"
    relabelLeft,     \* the torrents the loop has not come to yet
    relabelOutcome,  \* per torrent: how the loop body left it
    labelCalls,      \* the calls of c.SetTorrentLabel
    relabelIgnored,  \* ignoredTorrents of the relabel run
    nonUniqueTorrents,
    relabeledTorrents,
    errorRelabelTorrents,
    \* ---- clean run twice over the same snapshot ----
    firstClean,     \* what the first of the two runs left behind
    inodeStart,     \* the disk both runs start from
    \* ---- the adapter's RemoveTorrent (pkg/client) ----
    adapterKind,     \* "qbittorrent" or "deluge"
    adapterLeft,     \* the torrents removeTorrent has not been called for yet
    adapterHash,     \* the torrent RemoveTorrent is working on, 0 for none
    adapterPc,       \* "idle", or the call RemoveTorrent makes next
    apiCalls,        \* the calls made on the client library, in order
    adapterOutcome   \* per torrent: "none", "dryRun", "removed" or "failed"

inputVars == <<files, downloaded, freeSpaceSet, deleteData,
               bypassIgnore, mapHardlinks>>
worldVars == <<inode, clientTorrents, removeCalls>>
cleanVars == <<pc, torrents, verdict, reported, regState, tfm, hfm, hardlinkedCandidates,
               fileOverlapCandidates, fields, ignoredTorrents, hardRemoveTorrents,
               errorRemoveTorrents, removedTorrentBytes, removedCandidates,
               freeSpaceAdded>>
unregVars == <<TrackerStatus, TrackerName, trackerApi, unregPc, unregResult,
               statusMatched, apiQueried>>
retagVars == <<tagRules, Tags, UpLimit, ruleMatch, retagPc, retagPending, tagCalls,
               retagIgnored, retaggedTorrents, errorRetaggedTorrents, retagFields,
               retagOutcome, firstRun>>
orphanVars == <<orphanTfm, pathMapping, IgnorePaths, GracePeriod, ModAge, diskFiles,
                diskDirs, pathCache, orphanPc, items, batchI, batch, workerSem, wg,
                worker, removeFailures, removedLocalFiles, ignoredLocalFiles,
                removedLocalFilesSize, orphanFolderPaths, ignoredLocalFolders,
                removedLocalFolders>>
foiVars == <<foiMap, foiRemoved, foiT, foiPc, foiBefore>>
ptpVars == <<ptpServer, ptpHash, ptpCache, ptpFetched, ptpApiError, ptpMux, ptpPc, ptpAnswer, ptpDown, ptpFetches, ptpFailed>>
poolVars == <<maxWorkers, itemsIn, fnCalls>>
dirVars == <<dirEmptyErr>>
evalVars == <<evalIgnores, evalRemoves, evalSeeds, evalFree, evalDecision, evalFreeAt, evalRan>>
relabelVars == <<relabelDecision, relabelUnique, flagCrossSeeds, relabelPc, relabelLeft, relabelOutcome, labelCalls, relabelIgnored, nonUniqueTorrents, relabeledTorrents, errorRelabelTorrents>>
twiceVars == <<firstClean, inodeStart>>
adapterVars == <<adapterKind, adapterLeft, adapterHash, adapterPc, apiCalls, adapterOutcome>>
vars == <<flagDryRun, inputVars, worldVars, cleanVars, unregVars, retagVars,
          orphanVars, foiVars, ptpVars, poolVars, dirVars, evalVars, relabelVars, twiceVars, adapterVars>>
\* what a clean run, a call of IsUnregistered, a retag run, an orphan run
\* leave alone
notClean == <<flagDryRun, inputVars, unregVars, retagVars, orphanVars, foiVars, ptpVars, poolVars, dirVars, evalVars, relabelVars, twiceVars, adapterVars>>
notUnreg == <<flagDryRun, inputVars, worldVars, cleanVars, retagVars, orphanVars, foiVars, ptpVars, poolVars, dirVars, evalVars, relabelVars, twiceVars, adapterVars>>
notRetag == <<flagDryRun, inputVars, worldVars, cleanVars, unregVars, orphanVars, foiVars, ptpVars, poolVars, dirVars, evalVars, relabelVars, twiceVars, adapterVars>>
notOrphan == <<flagDryRun, inputVars, worldVars, cleanVars, unregVars, retagVars, foiVars, ptpVars, evalVars, relabelVars, twiceVars, adapterVars>>
notFoi == <<flagDryRun, inputVars, worldVars, cleanVars, unregVars, retagVars, orphanVars, ptpVars, poolVars, dirVars, evalVars, relabelVars, twiceVars, adapterVars>>
notPtp == <<flagDryRun, inputVars, worldVars, cleanVars, unregVars, retagVars, orphanVars, foiVars, poolVars, dirVars, evalVars, relabelVars, twiceVars, adapterVars>>
notEval == <<flagDryRun, inputVars, worldVars, cleanVars, unregVars, retagVars, orphanVars, foiVars, ptpVars, poolVars, dirVars, relabelVars, twiceVars, adapterVars>>
notRelabel == <<flagDryRun, inputVars, worldVars, cleanVars, unregVars, retagVars, orphanVars, foiVars, ptpVars, poolVars, dirVars, evalVars, twiceVars, adapterVars>>
notTwice == <<flagDryRun, inputVars, unregVars, retagVars, orphanVars, foiVars, ptpVars, poolVars, dirVars, evalVars, relabelVars, adapterVars>>
notAdapter == <<flagDryRun, inputVars, worldVars, cleanVars, unregVars, retagVars, orphanVars, foiVars, ptpVars, poolVars, dirVars, evalVars, relabelVars, twiceVars>>

(***************************************************************************)
(* File-overlap index (pkg/torrentfilemap).  A missing map key is the      *)
(* empty set: Remove deletes a key whose set became empty.                 *)
(***************************************************************************)
TfmNew(T, fls) == [p \in Paths |-> {h \in T : p \in fls[h]}]

TfmAdd(m, h) == [p \in Paths |-> IF p \in files[h] THEN m[p] \cup {h} ELSE m[p]]

TfmRemove(m, h) == [p \in Paths |-> IF p \in files[h] THEN m[p] \ {h} ELSE m[p]]

TfmIsUnique(m, h) == \A p \in files[h] : ~(Cardinality(m[p]) > 1)

TfmNoInstances(m, h) == \A p \in files[h] : ~(Cardinality(m[p]) >= 1)

(***************************************************************************)
(* Hardlink index (pkg/hardlinkfilemap).  The clean model runs with an     *)
(* empty download_path_mapping, under which considerPathMapping returns    *)
(* its argument.                                                           *)
(***************************************************************************)
considerPathMapping(path) == path

\* linkInfoByPath: <<id, ok>>
linkInfoByPath(ino, path) == <<ino[path], ino[path] # 0>>

RECURSIVE HfmAddFiles(_, _, _)
HfmAddFiles(m, ino, F) ==
    IF F = {} THEN m
    ELSE LET f == CHOOSE x \in F : TRUE
             li == linkInfoByPath(ino, considerPathMapping(f))
             m2 == IF li[2] THEN [m EXCEPT ![li[1]] = @ \cup {considerPathMapping(f)}]
                   ELSE m
         IN HfmAddFiles(m2, ino, F \ {f})

HfmAddByTorrent(m, ino, h) ==
    IF ~downloaded[h] THEN m ELSE HfmAddFiles(m, ino, files[h])

RECURSIVE HfmNewFrom(_, _, _)
HfmNewFrom(m, ino, T) ==
    IF T = {} THEN m
    ELSE LET h == CHOOSE x \in T : TRUE
         IN HfmNewFrom(IF downloaded[h] THEN HfmAddFiles(m, ino, files[h]) ELSE m,
                       ino, T \ {h})

RECURSIVE HfmRemoveFiles(_, _, _)
HfmRemoveFiles(m, ino, F) ==
    IF F = {} THEN m
    ELSE LET f == CHOOSE x \in F : TRUE
             li == linkInfoByPath(ino, considerPathMapping(f))
             m2 == IF li[2] THEN [m EXCEPT ![li[1]] = @ \ {considerPathMapping(f)}]
                   ELSE m
         IN HfmRemoveFiles(m2, ino, F \ {f})

\* the no-op index changes nothing; the real one skips torrents not downloaded
HfmRemoveByTorrent(m, ino, h) ==
    IF ~mapHardlinks \/ ~downloaded[h] THEN m ELSE HfmRemoveFiles(m, ino, files[h])

\* countLinks: <<paths in the map for f's id, ok>>
countLinks(m, ino, f) ==
    LET li == linkInfoByPath(ino, considerPathMapping(f))
    IN IF ~li[2] THEN <<0, FALSE>> ELSE <<Cardinality(m[li[1]]), TRUE>>

HfmIsTorrentUnique(m, ino, h) ==
    IF ~mapHardlinks \/ ~downloaded[h] THEN TRUE
    ELSE \A f \in files[h] :
            LET c == countLinks(m, ino, f) IN c[2] /\ ~(c[1] > 1)

\* variant: the index never reports a remaining instance
HfmNoInstancesAlways(m, ino, h) == TRUE

HfmNoInstances(m, ino, h) ==
    IF ~mapHardlinks \/ ~downloaded[h] THEN TRUE
    ELSE \A f \in files[h] :
            LET c == countLinks(m, ino, f) IN c[2] /\ c[1] = 0

EmptyHfm == [i \in Inodes |-> {}]

(***************************************************************************)
(* clean: removeEligibleTorrents                                           *)
(***************************************************************************)
\* the disk after the client deleted the data of torrent h
DiskAfterDelete(ino, h) == [p \in Paths |-> IF p \in files[h] THEN 0 ELSE ino[p]]

\* another torrent the client still holds declares one of h's paths
SharedWithPresent(h) ==
    \E o \in clientTorrents \ {h} : files[o] \cap files[h] # {}

\* variant: the filter's setting is passed on unchanged
LocalDeleteDataAlways(isUnique, isHardlinked) == deleteData

\* For non-unique torrents with file overlap (not hardlinked), always keep the data
LocalDeleteData(isUnique, isHardlinked) ==
    IF ~isUnique /\ ~isHardlinked THEN FALSE ELSE deleteData

\* the removeTorrent closure; res is the adapter's answer to RemoveTorrent
removeTorrent(h, isHardlinked, isUnique, isNotUniqueUnregistered, res, phase) ==
    LET hfm1 == HfmRemoveByTorrent(hfm, inode, h)
        ldd == LocalDeleteData(isUnique, isHardlinked)
        failed == ~flagDryRun /\ res # "ok"
    IN /\ hfm' = hfm1
       /\ removeCalls' = IF flagDryRun THEN removeCalls
                         ELSE removeCalls \cup
                              {[hash |-> h, deleteData |-> ldd, phase |-> phase,
                                removed |-> (res = "ok"),
                                unregistered |-> (regState'[h] = "Unregistered"),
                                addFreeSpace |-> (res = "ok" /\ ldd /\ freeSpaceSet),
                                isUnique |-> isUnique, isHardlinked |-> isHardlinked,
                                foiUnique |-> TfmIsUnique(tfm, h),
                                hliUnique |-> HfmIsTorrentUnique(hfm, inode, h),
                                shared |-> SharedWithPresent(h)]}
       /\ torrents' = torrents \ {h}
       /\ IF failed
          THEN /\ errorRemoveTorrents' = errorRemoveTorrents + 1
               /\ UNCHANGED <<inode, clientTorrents, fields, removedTorrentBytes,
                              hardRemoveTorrents, tfm, freeSpaceAdded>>
          ELSE /\ errorRemoveTorrents' = errorRemoveTorrents
               /\ clientTorrents' = IF flagDryRun THEN clientTorrents
                                    ELSE clientTorrents \ {h}
               /\ inode' = IF ~flagDryRun /\ ldd THEN DiskAfterDelete(inode, h) ELSE inode
               /\ freeSpaceAdded' = IF ~flagDryRun /\ ldd /\ freeSpaceSet
                                    THEN freeSpaceAdded + DownloadedBytes(h)
                                    ELSE freeSpaceAdded
               /\ fields' = fields \cup {h}
               /\ removedTorrentBytes' = removedTorrentBytes + DownloadedBytes(h)
               /\ hardRemoveTorrents' = hardRemoveTorrents + 1
               /\ tfm' = TfmRemove(tfm, h)

\* variant: the hardlink test is left out of isUnique
ClassifyIgnoreHardlinks(foiUnique, hliUnique) == <<foiUnique, ~hliUnique>>

\* variant: a non-unique torrent is never classified as hardlinked
ClassifyNeverHardlinked(foiUnique, hliUnique) == <<foiUnique /\ hliUnique, FALSE>>

\* the uniqueness classification of the phase-1 loop: <<isUnique, isHardlinked>>;
\* the hardlink test runs second and overwrites what the file-overlap test set
Classify(foiUnique, hliUnique) ==
    LET afterFoi == IF ~foiUnique THEN <<FALSE, FALSE>> ELSE <<TRUE, FALSE>>
    IN IF ~hliUnique THEN <<FALSE, TRUE>> ELSE afterFoi

AdapterResults == {"ok", "err", "notRemoved"}
EvalResults == {"no", "yes", "err"}

\* variant: the loop takes every torrent for unregistered
AnswerUnregisteredAlways(h, u) == TRUE

\* t.IsUnregistered as the loop consults it: the answer is fixed per torrent
\* for the run; u is the oracle's answer at the first consultation
AnswerUnregistered(h, u) ==
    IF regState[h] = "Unknown" THEN u ELSE regState[h] = "Unregistered"

\* the registration state the oracle's answer leaves on the torrent
RegStateAfter(h, u) ==
    [regState EXCEPT ![h] = IF @ # "Unknown" THEN @
                            ELSE IF u THEN "Unregistered" ELSE "Registered"]

\* one iteration of the phase-1 loop "for h, t := range torrents"
CleanIterate(h) ==
    /\ pc = "phase1"
    /\ h \in torrents
    /\ verdict[h] = "pending"
    /\ UNCHANGED notClean
    /\ LET foiUnique == TfmIsUnique(tfm, h)
           hliUnique == HfmIsTorrentUnique(hfm, inode, h)
           isUnique == Classify(foiUnique, hliUnique)[1]
           isHardlinked == Classify(foiUnique, hliUnique)[2]
           seen == [reported EXCEPT ![h] = [seen |-> TRUE, foi |-> foiUnique,
                                            hli |-> hliUnique]]
       IN
       \* each input is drawn only where the loop body consults it
       \E ign \in EvalResults :
       \E rem \in (IF ign = "err" \/ (ign = "yes" /\ ~bypassIgnore)
                   THEN {"no"} ELSE EvalResults) :
       \E u \in (IF (ign = "yes" /\ bypassIgnore) \/ (ign = "no" /\ rem = "yes" /\ ~isUnique)
                 THEN BOOLEAN ELSE {FALSE}) :
       \E res \in (IF flagDryRun \/ ign = "err" \/ rem # "yes" \/ (ign = "yes" /\ ~u)
                        \/ (~isUnique /\ ~u)
                   THEN {"ok"} ELSE AdapterResults) :
        LET unreg == AnswerUnregistered(h, u)
        IN
        IF ign = "err" THEN
            \* error while determining whether to ignore torrent
            /\ torrents' = torrents \ {h}
            /\ verdict' = [verdict EXCEPT ![h] = "evalErr"]
            /\ reported' = reported
            /\ UNCHANGED <<worldVars, regState, tfm, hfm, hardlinkedCandidates,
                           fileOverlapCandidates, fields, ignoredTorrents,
                           hardRemoveTorrents, errorRemoveTorrents,
                           removedTorrentBytes, removedCandidates, freeSpaceAdded, pc>>
        ELSE IF ign = "yes" /\ ~(bypassIgnore /\ unreg) THEN
            /\ torrents' = torrents \ {h}
            /\ ignoredTorrents' = ignoredTorrents + 1
            /\ verdict' = [verdict EXCEPT ![h] = "ignored"]
            /\ reported' = reported
            /\ regState' = IF bypassIgnore THEN RegStateAfter(h, u) ELSE regState
            /\ UNCHANGED <<worldVars, tfm, hfm, hardlinkedCandidates,
                           fileOverlapCandidates, fields,
                           hardRemoveTorrents, errorRemoveTorrents,
                           removedTorrentBytes, removedCandidates, freeSpaceAdded, pc>>
        ELSE IF rem = "err" THEN
            /\ torrents' = torrents \ {h}
            /\ verdict' = [verdict EXCEPT ![h] = "evalErr"]
            /\ reported' = reported
            /\ regState' = IF ign = "yes" THEN RegStateAfter(h, u) ELSE regState
            /\ UNCHANGED <<worldVars, tfm, hfm, hardlinkedCandidates,
                           fileOverlapCandidates, fields, ignoredTorrents,
                           hardRemoveTorrents, errorRemoveTorrents,
                           removedTorrentBytes, removedCandidates, freeSpaceAdded, pc>>
        ELSE IF rem = "no" THEN
            /\ verdict' = [verdict EXCEPT ![h] = "noMatch"]
            /\ reported' = reported
            /\ regState' = IF ign = "yes" THEN RegStateAfter(h, u) ELSE regState
            /\ UNCHANGED <<worldVars, torrents, tfm, hfm, hardlinkedCandidates,
                           fileOverlapCandidates, fields, ignoredTorrents,
                           hardRemoveTorrents, errorRemoveTorrents,
                           removedTorrentBytes, removedCandidates, freeSpaceAdded, pc>>
        ELSE IF ~isUnique THEN
            /\ regState' = RegStateAfter(h, u)
            /\ IF unreg THEN
                  \* For unregistered torrents, override safety checks and remove immediately
                  /\ verdict' = [verdict EXCEPT ![h] = "removedUnregistered"]
                  /\ reported' = seen
                  /\ removeTorrent(h, isHardlinked, isUnique, TRUE, res, 1)
                  /\ UNCHANGED <<hardlinkedCandidates, fileOverlapCandidates,
                                 ignoredTorrents, removedCandidates, pc>>
               ELSE
                  /\ verdict' = [verdict EXCEPT ![h] = "candidate"]
                  /\ reported' = seen
                  /\ hardlinkedCandidates' = IF isHardlinked
                                             THEN hardlinkedCandidates \cup {h}
                                             ELSE hardlinkedCandidates
                  /\ fileOverlapCandidates' = IF isHardlinked
                                              THEN fileOverlapCandidates
                                              ELSE fileOverlapCandidates \cup {h}
                  /\ UNCHANGED <<worldVars, torrents, tfm, hfm, fields, ignoredTorrents,
                                 hardRemoveTorrents, errorRemoveTorrents,
                                 removedTorrentBytes, removedCandidates,
                                 freeSpaceAdded, pc>>
        ELSE
            \* Remove unique torrents
            /\ verdict' = [verdict EXCEPT ![h] = "removedUnique"]
            /\ reported' = seen
            /\ regState' = IF ign = "yes" THEN RegStateAfter(h, u) ELSE regState
            /\ removeTorrent(h, FALSE, isUnique, FALSE, res, 1)
            /\ UNCHANGED <<hardlinkedCandidates, fileOverlapCandidates,
                           ignoredTorrents, removedCandidates, pc>>

RECURSIVE TfmRemoveAll(_, _)
TfmRemoveAll(m, S) ==
    IF S = {} THEN m
    ELSE LET h == CHOOSE x \in S : TRUE IN TfmRemoveAll(TfmRemove(m, h), S \ {h})

RECURSIVE HfmRemoveAll(_, _, _)
HfmRemoveAll(m, ino, S) ==
    IF S = {} THEN m
    ELSE LET h == CHOOSE x \in S : TRUE
         IN HfmRemoveAll(HfmRemoveByTorrent(m, ino, h), ino, S \ {h})

\* variant: the candidate loops start while the phase-1 loop is under way
CleanVirtualRemoveEarly ==
    /\ pc = "phase1"
    /\ tfm' = TfmRemoveAll(tfm, fileOverlapCandidates \cup hardlinkedCandidates)
    /\ hfm' = HfmRemoveAll(hfm, inode, fileOverlapCandidates \cup hardlinkedCandidates)
    /\ pc' = "phase2"
    /\ UNCHANGED <<notClean, reported, worldVars, torrents, verdict, regState,
                   hardlinkedCandidates, fileOverlapCandidates, fields, ignoredTorrents,
                   hardRemoveTorrents, errorRemoveTorrents, removedTorrentBytes,
                   removedCandidates, freeSpaceAdded>>

\* the phase-1 loop is over; "imagine we removed all candidates"
CleanVirtualRemove ==
    /\ pc = "phase1"
    /\ \A h \in torrents : verdict[h] # "pending"
    /\ tfm' = TfmRemoveAll(tfm, fileOverlapCandidates \cup hardlinkedCandidates)
    /\ hfm' = HfmRemoveAll(hfm, inode, fileOverlapCandidates \cup hardlinkedCandidates)
    /\ pc' = "phase2"
    /\ UNCHANGED <<notClean, reported, worldVars, torrents, verdict, regState,
                   hardlinkedCandidates, fileOverlapCandidates, fields, ignoredTorrents,
                   hardRemoveTorrents, errorRemoveTorrents, removedTorrentBytes,
                   removedCandidates, freeSpaceAdded>>

\* one iteration of "for h, t := range fileOverlapCandidates"
CleanFileOverlapCandidate(h) ==
    /\ pc = "phase2"
    /\ h \in fileOverlapCandidates
    /\ verdict[h] = "candidate"
    /\ UNCHANGED <<notClean, reported, regState, hardlinkedCandidates, fileOverlapCandidates,
                   ignoredTorrents, pc>>
    /\ IF ~(TfmNoInstances(tfm, h) /\ HfmNoInstances(hfm, inode, h))
       THEN /\ verdict' = [verdict EXCEPT ![h] = "stillNotUnique"]
            /\ UNCHANGED <<worldVars, torrents, tfm, hfm, fields, hardRemoveTorrents,
                           errorRemoveTorrents, removedTorrentBytes, removedCandidates,
                           freeSpaceAdded>>
       ELSE /\ verdict' = [verdict EXCEPT ![h] = "removedCandidate"]
            /\ removedCandidates' = removedCandidates + 1
            /\ \E res \in (IF flagDryRun THEN {"ok"} ELSE AdapterResults) :
                   removeTorrent(h, FALSE, FALSE, FALSE, res, 2)

\* one iteration of "for h, t := range hardlinkedCandidates"
CleanHardlinkedCandidate(h) ==
    /\ pc = "phase2"
    /\ \A o \in fileOverlapCandidates : verdict[o] # "candidate"
    /\ h \in hardlinkedCandidates
    /\ verdict[h] = "candidate"
    /\ UNCHANGED <<notClean, reported, regState, hardlinkedCandidates, fileOverlapCandidates,
                   ignoredTorrents, pc>>
    /\ IF ~(TfmNoInstances(tfm, h) /\ HfmNoInstances(hfm, inode, h))
       THEN /\ verdict' = [verdict EXCEPT ![h] = "stillNotUnique"]
            /\ UNCHANGED <<worldVars, torrents, tfm, hfm, fields, hardRemoveTorrents,
                           errorRemoveTorrents, removedTorrentBytes, removedCandidates,
                           freeSpaceAdded>>
       ELSE /\ verdict' = [verdict EXCEPT ![h] = "removedCandidate"]
            /\ removedCandidates' = removedCandidates + 1
            /\ \E res \in (IF flagDryRun THEN {"ok"} ELSE AdapterResults) :
                   removeTorrent(h, TRUE, FALSE, FALSE, res, 2)

\* both candidate loops are over: "show result"
CleanDone ==
    /\ pc = "phase2"
    /\ \A h \in fileOverlapCandidates \cup hardlinkedCandidates : verdict[h] # "candidate"

CleanNext ==
    \/ \E h \in Hashes : CleanIterate(h)
    \/ CleanVirtualRemove
    \/ \E h \in Hashes : CleanFileOverlapCandidate(h)
    \/ \E h \in Hashes : CleanHardlinkedCandidate(h)


(***************************************************************************)
(* The tracker oracle (pkg/config/torrent.go).  A status is a sequence of  *)
(* words; strings.Contains is containment of a run of words.               *)
(***************************************************************************)
Words == {"down", "Down", "dead", "DEAD", "not", "working", "exist", "ok"}

Statuses == UNION {[1..n -> Words] : n \in 0..MaxStatusLen}

LowerWord(w) == CASE w = "Down" -> "down"
                  [] w = "DEAD" -> "dead"
                  [] OTHER -> w

\* strings.ToLower
ToLower(s) == [i \in 1..Len(s) |-> LowerWord(s[i])]

\* strings.Contains
Contains(s, sub) ==
    \E i \in 0..(Len(s) - Len(sub)) : SubSeq(s, i + 1, i + Len(sub)) = sub

\* entries of trackerDownStatuses: "down", "not working"
trackerDownStatuses == {<<"down">>, <<"not", "working">>}

\* entries of defaultUnregisteredStatuses: "dead", "not exist"
defaultUnregisteredStatusesMap == {<<"dead">>, <<"not", "exist">>}

\* unregistered_statuses configured for one tracker, keyed by the lowercased name
effectiveUnregisteredStatuses ==
    [t \in {"btn"} |-> {<<"exist">>, <<"not", "working">>}]

TrackerNames == {"BTN", "btn", "ptp"}

LowerName(n) == IF n = "BTN" THEN "btn" ELSE n

\* tracker.Get: no plugin for the tracker, or a plugin whose query fails or answers
TrackerApis == {"none", "err", "unregistered", "registered"}

IsTrackerDown(status) ==
    IF status = <<>> THEN FALSE
    ELSE \E v \in trackerDownStatuses : Contains(ToLower(status), v)

\* "Use per-tracker list if available, otherwise use defaults"
statusMapToCheck(name) ==
    IF LowerName(name) \in DOMAIN effectiveUnregisteredStatuses
    THEN effectiveUnregisteredStatuses[LowerName(name)]
    ELSE defaultUnregisteredStatusesMap

\* variant: the tracker-down test is left out
UnregSkipDownCheck ==
    /\ unregPc = "start"
    /\ unregPc' = "match"
    /\ UNCHANGED <<TrackerStatus, TrackerName, trackerApi, unregResult,
                   statusMatched, apiQueried>>
    /\ UNCHANGED notUnreg

\* if t.IsTrackerDown() { return false }
UnregCheckDown ==
    /\ unregPc = "start"
    /\ IF IsTrackerDown(TrackerStatus)
       THEN unregPc' = "done" /\ unregResult' = FALSE
       ELSE unregPc' = "match" /\ unregResult' = unregResult
    /\ UNCHANGED <<TrackerStatus, TrackerName, trackerApi, statusMatched, apiQueried>>
    /\ UNCHANGED notUnreg

\* the empty-status return and the loop over statusMapToCheck
UnregMatchStatus ==
    /\ unregPc = "match"
    /\ IF TrackerStatus = <<>>
       THEN /\ unregPc' = "done" /\ unregResult' = FALSE
            /\ statusMatched' = statusMatched
       ELSE /\ statusMatched' = TRUE
            /\ IF \E st \in statusMapToCheck(TrackerName) :
                      Contains(ToLower(TrackerStatus), st)
               THEN unregPc' = "done" /\ unregResult' = TRUE
               ELSE unregPc' = "api" /\ unregResult' = unregResult
    /\ UNCHANGED <<TrackerStatus, TrackerName, trackerApi, apiQueried>>
    /\ UNCHANGED notUnreg

\* "check tracker api (if available)"
UnregQueryApi ==
    /\ unregPc = "api"
    /\ unregPc' = "done"
    /\ apiQueried' = (trackerApi # "none")
    /\ unregResult' = (trackerApi = "unregistered")
    /\ UNCHANGED <<TrackerStatus, TrackerName, trackerApi, statusMatched>>
    /\ UNCHANGED notUnreg

(***************************************************************************)
(* retag: retagCmd and retagEligibleTorrents.  A pointer to an int is a   *)
(* sequence: <<>> is nil, <<v>> points to v.                               *)
(***************************************************************************)
RetagTorrents == {"A", "B"}

\* the tag rules of the retag model: none; one rule kept in step with its
\* condition; a rule that only removes and lifts the limit, then a rule kept
\* in step with its condition that sets a limit in KiB/s; two rules that
\* only remove, each with a limit of its own in KiB/s
RuleSets ==
    { <<>>,
      << [Name |-> "x", Mode |-> "full", UploadKb |-> <<>>] >>,
      << [Name |-> "x", Mode |-> "remove", UploadKb |-> <<-1>>],
         [Name |-> "y", Mode |-> "full", UploadKb |-> <<2>>] >>,
      << [Name |-> "x", Mode |-> "remove", UploadKb |-> <<1>>],
         [Name |-> "y", Mode |-> "remove", UploadKb |-> <<2>>] >> }

TagsChoices == {<<>>, <<"x">>, <<"y", "x">>}

UpLimitChoices == {-1, 0, 2048}

\* the torrents of a retag run: A ranges over every tag list and limit, B
\* over the empty and the full tag list, with no limit set
RetagTagsChoices == {t \in [RetagTorrents -> TagsChoices] : t["B"] # <<"x">>}
RetagUpLimitChoices == {u \in [RetagTorrents -> UpLimitChoices] : u["B"] = 0}

\* Go's integer division truncates toward zero
GoDiv(a, b) == IF a >= 0 THEN a \div b ELSE -((-a) \div b)

Range(seq) == {seq[i] : i \in DOMAIN seq}

RECURSIVE SetToSeq(_)
SetToSeq(S) ==
    IF S = {} THEN <<>>
    ELSE LET x == CHOOSE y \in S : TRUE IN <<x>> \o SetToSeq(S \ {x})

\* the inner loop of removeSlice, "for i, v := range slice", over the backing
\* array arr: the range runs over the n elements the slice had when the loop
\* began, the slice itself shrinks to len; i is 1-based
RECURSIVE removeSliceItem(_, _, _, _, _)
removeSliceItem(arr, len, i, n, item) ==
    IF i > n THEN [arr |-> arr, len |-> len, panic |-> FALSE]
    ELSE IF arr[i] # item THEN removeSliceItem(arr, len, i + 1, n, item)
    ELSE IF i > len THEN [arr |-> arr, len |-> len, panic |-> TRUE]
    ELSE removeSliceItem([k \in DOMAIN arr |-> IF k >= i /\ k < len THEN arr[k + 1]
                                                ELSE arr[k]],
                         len - 1, i + 1, n, item)

RECURSIVE removeSliceFrom(_, _, _)
removeSliceFrom(arr, len, remove) ==
    IF remove = <<>> THEN [arr |-> arr, len |-> len, panic |-> FALSE]
    ELSE LET r == removeSliceItem(arr, len, 1, len, Head(remove))
         IN IF r.panic THEN r ELSE removeSliceFrom(r.arr, r.len, Tail(remove))

removeSlice(slice, remove) ==
    LET r == removeSliceFrom(slice, Len(slice), remove)
    IN SubSeq(r.arr, 1, r.len)

\* sliceutils.StringSliceContains(t.Tags, name, false)
StringSliceContains(slice, name) == \E i \in DOMAIN slice : slice[i] = name

\* variant: a matching rule adds its tag whether or not the torrent has it
ShouldRetagAddsAgain(h) ==
    LET rules == DOMAIN tagRules
        containTag(i) == StringSliceContains(Tags[h], tagRules[i].Name)
    IN [Add |-> {tagRules[i].Name : i \in {j \in rules :
                     ruleMatch[h][j] /\ tagRules[j].Mode \in {"add", "full"}}},
        Remove |-> {tagRules[i].Name : i \in {j \in rules :
                     containTag(j) /\ ~ruleMatch[h][j]
                     /\ tagRules[j].Mode \in {"remove", "full"}}},
        UploadKb |-> <<>>]

\* ShouldRetag: the tags to add, the tags to remove, the upload limit to set
ShouldRetag(h) ==
    LET rules == DOMAIN tagRules
        containTag(i) == StringSliceContains(Tags[h], tagRules[i].Name)
        limited == {i \in rules : /\ ruleMatch[h][i]
                                  /\ tagRules[i].UploadKb # <<>>
                                  /\ GoDiv(UpLimit[h], 1024) # tagRules[i].UploadKb[1]}
        first == CHOOSE i \in limited : \A j \in limited : i <= j
    IN [Add |-> {tagRules[i].Name : i \in {j \in rules :
                     ~containTag(j) /\ ruleMatch[h][j]
                     /\ tagRules[j].Mode \in {"add", "full"}}},
        Remove |-> {tagRules[i].Name : i \in {j \in rules :
                     containTag(j) /\ ~ruleMatch[h][j]
                     /\ tagRules[j].Mode \in {"remove", "full"}}},
        UploadKb |-> IF limited = {} THEN <<>> ELSE tagRules[first].UploadKb]

\* limitBytes of the SetUploadLimit call
LimitBytes(kb) == IF kb = -1 THEN -1 ELSE kb * 1024

\* an adapter write: for SetUploadLimit, limit is the value the adapter is
\* handed, kb the scheduled *retagInfo.UploadKb and was the torrent's UpLimit
TagCall(op, h, tags, limit, kb, was) ==
    [op |-> op, hash |-> h, tags |-> tags, limit |-> limit, kb |-> kb, was |-> was]

\* "Verify tags exist on client": ct.CreateTags runs before the loop; the
\* adapter returns without a call when the list is empty
RetagCreateTags ==
    /\ retagPc = "createTags"
    /\ LET tagList == {tagRules[i].Name : i \in DOMAIN tagRules}
       IN IF tagList = {}
          THEN retagPc' = "loop" /\ tagCalls' = tagCalls
          ELSE \E res \in {"ok", "err"} :
                  /\ tagCalls' = tagCalls \cup {TagCall("CreateTags", "", tagList, 0, 0, 0)}
                  /\ retagPc' = IF res = "ok" THEN "loop" ELSE "fatal"
    /\ UNCHANGED <<tagRules, Tags, UpLimit, ruleMatch, retagPending, retagIgnored,
                   retaggedTorrents, errorRetaggedTorrents, retagFields,
                   retagOutcome, firstRun>>
    /\ UNCHANGED notRetag

\* what a successful adapter call leaves on the client: SetTags replaces the
\* torrent's tags, AddTags and RemoveTags add to them and take from them
ClientSetTags(current, tags) == tags
ClientAddTags(current, tags) == current \cup tags
ClientRemoveTags(current, tags) == current \ tags

\* the orders in which the client may list the tag set S
SeqsOf(S) ==
    {q \in [1..Cardinality(S) -> S] : \A i, j \in DOMAIN q : i # j => q[i] # q[j]}

\* one iteration of "for h, t := range torrents" in retagEligibleTorrents;
\* a write that succeeds changes the torrent on the client
RetagIterate(h) ==
    /\ retagPc = "loop"
    /\ h \in retagPending
    /\ retagPending' = retagPending \ {h}
    /\ UNCHANGED <<tagRules, ruleMatch, retagPc, firstRun>>
    /\ UNCHANGED notRetag
    /\ LET retagInfo == ShouldRetag(h)
           addTags == retagInfo.Add
           removeTags == retagInfo.Remove
           finalTags == Range(removeSlice(Tags[h], SetToSeq(removeTags))) \cup addTags
           shouldTakeAction ==
               addTags # {} \/ removeTags # {} \/ retagInfo.UploadKb # <<>>
           write == shouldTakeAction /\ ~flagDryRun
       IN
       \E evalErr \in (IF tagRules = <<>> THEN {FALSE} ELSE BOOLEAN) :
       \E rSet \in (IF write /\ ~evalErr THEN {"ok", "unsupported", "err"} ELSE {"ok"}) :
       \E rAdd \in (IF rSet = "unsupported" /\ addTags # {} THEN {"ok", "err"}
                    ELSE {"ok"}) :
       \E rRem \in (IF rSet = "unsupported" /\ removeTags # {} /\ rAdd = "ok"
                    THEN {"ok", "err"} ELSE {"ok"}) :
       \E rLim \in (IF write /\ ~evalErr /\ retagInfo.UploadKb # <<>>
                       /\ rSet # "err" /\ rAdd = "ok" /\ rRem = "ok"
                    THEN {"ok", "err"} ELSE {"ok"}) :
         IF evalErr THEN
            \* error while determining whether to evaluate tag rules
            /\ retagOutcome' = [retagOutcome EXCEPT ![h] = "evalErr"]
            /\ UNCHANGED <<Tags, UpLimit, tagCalls, retagIgnored, retaggedTorrents,
                           errorRetaggedTorrents, retagFields>>
         ELSE IF ~shouldTakeAction THEN
            /\ retagIgnored' = retagIgnored + 1
            /\ retagOutcome' = [retagOutcome EXCEPT ![h] = "ignored"]
            /\ UNCHANGED <<Tags, UpLimit, tagCalls, retaggedTorrents,
                           errorRetaggedTorrents, retagFields>>
         ELSE
            LET fallback == rSet = "unsupported"
                callAdd == fallback /\ addTags # {}
                callRemove == fallback /\ removeTags # {} /\ rAdd = "ok"
                tagsFailed == rSet = "err" \/ rAdd = "err" \/ rRem = "err"
                callLimit == retagInfo.UploadKb # <<>> /\ ~tagsFailed
                actionFailed == tagsFailed \/ rLim = "err"
                actionTaken ==
                    \/ rSet = "ok"
                    \/ (callAdd /\ rAdd = "ok")
                    \/ (callRemove /\ rRem = "ok")
                    \/ (callLimit /\ rLim = "ok")
                calls ==
                    {TagCall("SetTags", h, finalTags, 0, 0, 0)}
                    \cup (IF callAdd THEN {TagCall("AddTags", h, addTags, 0, 0, 0)}
                          ELSE {})
                    \cup (IF callRemove
                          THEN {TagCall("RemoveTags", h, removeTags, 0, 0, 0)}
                          ELSE {})
                    \cup (IF callLimit
                          THEN {TagCall("SetUploadLimit", h, {},
                                        LimitBytes(retagInfo.UploadKb[1]),
                                        retagInfo.UploadKb[1], UpLimit[h])}
                          ELSE {})
                \* the torrent's tags on the client once the calls are through
                afterAdd == IF callAdd /\ rAdd = "ok"
                            THEN ClientAddTags(Range(Tags[h]), addTags)
                            ELSE Range(Tags[h])
                clientTags ==
                    IF flagDryRun \/ rSet = "err" THEN Range(Tags[h])
                    ELSE IF rSet = "ok" THEN ClientSetTags(Range(Tags[h]), finalTags)
                    ELSE IF callRemove /\ rRem = "ok"
                    THEN ClientRemoveTags(afterAdd, removeTags)
                    ELSE afterAdd
                clientLimit ==
                    IF ~flagDryRun /\ callLimit /\ rLim = "ok"
                    THEN LimitBytes(retagInfo.UploadKb[1]) ELSE UpLimit[h]
            IN /\ retagIgnored' = retagIgnored
               /\ tagCalls' = IF flagDryRun THEN tagCalls ELSE tagCalls \cup calls
               /\ IF clientTags = Range(Tags[h]) THEN Tags' = Tags
                  ELSE \E q \in SeqsOf(clientTags) : Tags' = [Tags EXCEPT ![h] = q]
               /\ UpLimit' = [UpLimit EXCEPT ![h] = clientLimit]
               /\ retagOutcome' =
                      [retagOutcome EXCEPT ![h] = IF flagDryRun THEN "dryRun"
                                                  ELSE IF actionFailed THEN "failed"
                                                  ELSE "applied"]
               /\ errorRetaggedTorrents' =
                      IF ~flagDryRun /\ actionFailed THEN errorRetaggedTorrents + 1
                      ELSE errorRetaggedTorrents
               /\ IF flagDryRun \/ actionTaken
                  THEN /\ retagFields' = retagFields \cup {h}
                       /\ retaggedTorrents' = retaggedTorrents + 1
                  ELSE UNCHANGED <<retagFields, retaggedTorrents>>

\* the loop is over: "show result"
RetagDone == retagPc = "loop" /\ retagPending = {}

\* retag is run again on the client the first run left: the torrents are
\* fetched anew, their attributes other than tags and limit are as before
RetagRerun ==
    /\ RetagDone
    /\ firstRun = <<>>
    /\ firstRun' = <<[Tags |-> Tags, UpLimit |-> UpLimit, outcome |-> retagOutcome,
                     calls |-> tagCalls]>>
    /\ retagPc' = "createTags"
    /\ retagPending' = RetagTorrents
    /\ tagCalls' = {}
    /\ retagIgnored' = 0
    /\ retaggedTorrents' = 0
    /\ errorRetaggedTorrents' = 0
    /\ retagFields' = {}
    /\ retagOutcome' = [h \in RetagTorrents |-> "none"]
    /\ UNCHANGED <<tagRules, Tags, UpLimit, ruleMatch>>
    /\ UNCHANGED notRetag

(***************************************************************************)
(* orphan: orphanCmd and processInBatches.  A path is a sequence of        *)
(* characters.                                                             *)
(***************************************************************************)
\* the download folder /d holds three files and three directories
FileA == <<"/", "d", "/", "a">>
FileAB == <<"/", "d", "/", "a", "b">>
FileSB == <<"/", "d", "/", "s", "/", "b">>
DirS == <<"/", "d", "/", "s">>
DirU == <<"/", "d", "/", "s", "/", "u">>
DirUV == <<"/", "d", "/", "s", "/", "u", "/", "v">>

localFilePaths == {FileA, FileAB, FileSB}
localFolderPaths == {DirS, DirU, DirUV}

\* localPathSize
FileSize(p) == CASE p = FileA -> 1 [] p = FileAB -> 2 [] OTHER -> 4

\* what the client tracks: nothing; /d/s/b; /d/ab; /t/s/b with /t mapped to /d
TrackingChoices ==
    { [tfm |-> {}, mapping |-> {}],
      [tfm |-> {FileSB}, mapping |-> {}],
      [tfm |-> {FileAB}, mapping |-> {}],
      [tfm |-> {<<"/", "t", "/", "s", "/", "b">>},
       mapping |-> {<< <<"/", "t">>, <<"/", "d">> >>}] }

IgnoreChoices == {{}, {DirS}}

\* strings.HasPrefix
HasPrefix(s, prefix) ==
    Len(prefix) <= Len(s) /\ SubSeq(s, 1, Len(prefix)) = prefix

\* strings.Replace(s, from, to, 1)
Replace(s, from, to) ==
    IF ~Contains(s, from) THEN s
    ELSE LET at == CHOOSE i \in 1..Len(s) :
                      /\ SubSeq(s, i, i + Len(from) - 1) = from
                      /\ \A j \in 1..(i - 1) : SubSeq(s, j, j + Len(from) - 1) # from
         IN SubSeq(s, 1, at - 1) \o to \o SubSeq(s, at + Len(from), Len(s))

hasPathDirect(m, path) == \E torrentPath \in m : Contains(torrentPath, path)

hasPathWithMapping(m, path, torrentPathMapping) ==
    \E torrentPath \in m : \E mp \in torrentPathMapping :
        Contains(Replace(torrentPath, mp[1], mp[2]), path)

\* HasPath: <<answer, pathCache afterwards>>
HasPath(m, cache, path, torrentPathMapping) ==
    IF \E e \in cache : e[1] = path
    THEN <<(CHOOSE e \in cache : e[1] = path)[2], cache>>
    ELSE LET found == IF torrentPathMapping = {} THEN hasPathDirect(m, path)
                      ELSE hasPathWithMapping(m, path, torrentPathMapping)
         IN <<found, cache \cup {<<path, found>>}>>

isIgnoredPath(path, ignoreList) == \E ignore \in ignoreList : HasPrefix(path, ignore)

\* gracePeriod := 10 * time.Minute, replaced by a configured period > 0
gracePeriod == IF GracePeriod > 0 THEN GracePeriod ELSE DefaultGrace

\* isDirEmpty on the present disk
isDirEmpty(path) ==
    ~\E q \in diskFiles \cup diskDirs : HasPrefix(q, path \o <<"/">>)

\* variant: the folders are taken in whatever order the map yields them
SortedAnyOrder(S) ==
    {q \in [1..Cardinality(S) -> S] :
        \A i, j \in DOMAIN q : i # j => q[i] # q[j]}

\* sort.Slice by path length, longest first; equal lengths in any order
SortedByLength(S) ==
    {q \in [1..Cardinality(S) -> S] :
        /\ \A i, j \in DOMAIN q : i # j => q[i] # q[j]
        /\ \A i, j \in DOMAIN q : i < j => Len(q[i]) >= Len(q[j])}

\* the goroutine of a file ends: defer wg.Done(), then <-workerSem
WorkerExit(p, outcome) ==
    /\ worker' = [worker EXCEPT ![p] = outcome]
    /\ wg' = wg - 1
    /\ workerSem' = workerSem - 1

\* variant: a batch is handed to the pool only when it is full
OrphanRangeFullBatchesOnly(k) ==
    /\ orphanPc = "range"
    /\ k \in items
    /\ items' = items \ {k}
    /\ batch' = Append(batch, k)
    /\ batchI' = batchI + 1
    /\ orphanPc' = IF batchI + 1 = BatchSize
                   THEN "spawn"
                   ELSE IF items \ {k} = {} THEN "wait" ELSE "range"
    /\ UNCHANGED <<orphanTfm, pathMapping, IgnorePaths, GracePeriod, ModAge, diskFiles,
                   diskDirs, pathCache, workerSem, wg, worker, removeFailures,
                   removedLocalFiles, ignoredLocalFiles, removedLocalFilesSize,
                   orphanFolderPaths, ignoredLocalFolders, removedLocalFolders>>
    /\ UNCHANGED <<poolVars, dirVars>>
    /\ UNCHANGED notOrphan

\* processInBatches: one iteration of "for k, v := range items"
OrphanRange(k) ==
    /\ orphanPc = "range"
    /\ k \in items
    /\ items' = items \ {k}
    /\ batch' = Append(batch, k)
    /\ batchI' = batchI + 1
    /\ orphanPc' = IF batchI + 1 = BatchSize \/ batchI + 1 = Cardinality(itemsIn)
                   THEN "spawn"
                   ELSE IF items \ {k} = {} THEN "wait" ELSE "range"
    /\ UNCHANGED <<orphanTfm, pathMapping, IgnorePaths, GracePeriod, ModAge, diskFiles,
                   diskDirs, pathCache, workerSem, wg, worker, removeFailures,
                   removedLocalFiles, ignoredLocalFiles, removedLocalFilesSize,
                   orphanFolderPaths, ignoredLocalFolders, removedLocalFolders>>
    /\ UNCHANGED <<poolVars, dirVars>>
    /\ UNCHANGED notOrphan

\* variant: a goroutine is started without a token from workerSem
OrphanSpawnUnbounded ==
    /\ orphanPc = "spawn"
    /\ batch # <<>>
    /\ fnCalls' = [fnCalls EXCEPT ![Head(batch)] = @ + 1]
    /\ wg' = wg + 1
    /\ workerSem' = workerSem + 1
    /\ worker' = [worker EXCEPT ![Head(batch)] = "check"]
    /\ batch' = Tail(batch)
    /\ orphanPc' = IF Tail(batch) # <<>> THEN "spawn"
                   ELSE IF items = {} THEN "wait" ELSE "range"
    /\ UNCHANGED <<orphanTfm, pathMapping, IgnorePaths, GracePeriod, ModAge, diskFiles,
                   diskDirs, pathCache, items, batchI, removeFailures,
                   removedLocalFiles, ignoredLocalFiles, removedLocalFilesSize,
                   orphanFolderPaths, ignoredLocalFolders, removedLocalFolders>>
    /\ UNCHANGED <<maxWorkers, itemsIn, dirVars>>
    /\ UNCHANGED notOrphan

\* processInBatches: one iteration of "for _, item := range batch": wg.Add(1),
\* a token into workerSem (blocks while maxWorkers are held), go func
OrphanSpawn ==
    /\ orphanPc = "spawn"
    /\ batch # <<>>
    /\ workerSem < maxWorkers
    /\ fnCalls' = [fnCalls EXCEPT ![Head(batch)] = @ + 1]
    /\ wg' = wg + 1
    /\ workerSem' = workerSem + 1
    /\ worker' = [worker EXCEPT ![Head(batch)] = "check"]
    /\ batch' = Tail(batch)
    /\ orphanPc' = IF Tail(batch) # <<>> THEN "spawn"
                   ELSE IF items = {} THEN "wait" ELSE "range"
    /\ UNCHANGED <<orphanTfm, pathMapping, IgnorePaths, GracePeriod, ModAge, diskFiles,
                   diskDirs, pathCache, items, batchI, removeFailures,
                   removedLocalFiles, ignoredLocalFiles, removedLocalFilesSize,
                   orphanFolderPaths, ignoredLocalFolders, removedLocalFolders>>
    /\ UNCHANGED <<maxWorkers, itemsIn, dirVars>>
    /\ UNCHANGED notOrphan

\* variant: the worker does not ask the file-overlap index
OrphanWorkerCheckUntracked(p) ==
    /\ worker[p] = "check"
    /\ worker' = [worker EXCEPT ![p] = "stat"]
    /\ UNCHANGED <<orphanTfm, pathMapping, IgnorePaths, GracePeriod, ModAge, diskFiles,
                   diskDirs, pathCache, orphanPc, items, batchI, batch, workerSem, wg,
                   removeFailures, removedLocalFiles, ignoredLocalFiles,
                   removedLocalFilesSize, orphanFolderPaths, ignoredLocalFolders,
                   removedLocalFolders>>
    /\ UNCHANGED <<poolVars, dirVars>>
    /\ UNCHANGED notOrphan

\* the worker of file p: tfm.HasPath, then isIgnoredPath
OrphanWorkerCheck(p) ==
    /\ worker[p] = "check"
    /\ LET hp == HasPath(orphanTfm, pathCache, p, pathMapping)
       IN /\ pathCache' = hp[2]
          /\ IF hp[1]
             THEN WorkerExit(p, "tracked") /\ UNCHANGED ignoredLocalFiles
             ELSE IF isIgnoredPath(p, IgnorePaths)
             THEN /\ WorkerExit(p, "ignored")
                  /\ ignoredLocalFiles' = ignoredLocalFiles + 1
             ELSE /\ worker' = [worker EXCEPT ![p] = "stat"]
                  /\ UNCHANGED <<wg, workerSem, ignoredLocalFiles>>
    /\ UNCHANGED <<orphanTfm, pathMapping, IgnorePaths, GracePeriod, ModAge, diskFiles,
                   diskDirs, orphanPc, items, batchI, batch, removeFailures,
                   removedLocalFiles, removedLocalFilesSize, orphanFolderPaths,
                   ignoredLocalFolders, removedLocalFolders>>
    /\ UNCHANGED <<poolVars, dirVars>>
    /\ UNCHANGED notOrphan

\* variant: the modification time is not compared with the grace period
OrphanWorkerStatNoGrace(p) ==
    /\ worker[p] = "stat"
    /\ worker' = [worker EXCEPT ![p] = "remove"]
    /\ UNCHANGED <<orphanTfm, pathMapping, IgnorePaths, GracePeriod, ModAge, diskFiles,
                   diskDirs, pathCache, orphanPc, items, batchI, batch, workerSem, wg,
                   removeFailures, removedLocalFiles, ignoredLocalFiles,
                   removedLocalFilesSize, orphanFolderPaths, ignoredLocalFolders,
                   removedLocalFolders>>
    /\ UNCHANGED <<poolVars, dirVars>>
    /\ UNCHANGED notOrphan

\* the worker of file p: os.Stat, then the grace period
OrphanWorkerStat(p) ==
    /\ worker[p] = "stat"
    /\ \E stat \in {"ok", "err"} :
          IF stat = "err" THEN WorkerExit(p, "statErr")
          ELSE IF ModAge[p] < gracePeriod THEN WorkerExit(p, "grace")
          ELSE /\ worker' = [worker EXCEPT ![p] = "remove"]
               /\ UNCHANGED <<wg, workerSem>>
    /\ UNCHANGED <<orphanTfm, pathMapping, IgnorePaths, GracePeriod, ModAge, diskFiles,
                   diskDirs, pathCache, orphanPc, items, batchI, batch,
                   removeFailures, removedLocalFiles, ignoredLocalFiles,
                   removedLocalFilesSize, orphanFolderPaths, ignoredLocalFolders,
                   removedLocalFolders>>
    /\ UNCHANGED <<poolVars, dirVars>>
    /\ UNCHANGED notOrphan

\* the worker of file p: os.Remove unless dry-run, then the counters
OrphanWorkerRemove(p) ==
    /\ worker[p] = "remove"
    /\ \E res \in (IF flagDryRun THEN {"ok"} ELSE {"ok", "err"}) :
          IF res = "err"
          THEN /\ removeFailures' = removeFailures + 1
               /\ WorkerExit(p, "removeFailed")
               /\ UNCHANGED <<diskFiles, removedLocalFiles, removedLocalFilesSize>>
          ELSE /\ diskFiles' = IF flagDryRun THEN diskFiles ELSE diskFiles \ {p}
               /\ removedLocalFilesSize' = removedLocalFilesSize + FileSize(p)
               /\ removedLocalFiles' = removedLocalFiles + 1
               /\ WorkerExit(p, "removed")
               /\ UNCHANGED removeFailures
    /\ UNCHANGED <<orphanTfm, pathMapping, IgnorePaths, GracePeriod, ModAge,
                   diskDirs, pathCache, orphanPc, items, batchI, batch,
                   ignoredLocalFiles, orphanFolderPaths, ignoredLocalFolders,
                   removedLocalFolders>>
    /\ UNCHANGED <<poolVars, dirVars>>
    /\ UNCHANGED notOrphan

\* the folders the loop over localFolderPaths keeps, and the cache it leaves
RECURSIVE FolderFilter(_, _)
FolderFilter(S, cache) ==
    IF S = {} THEN [keep |-> {}, ignored |-> 0, cache |-> cache]
    ELSE LET d == CHOOSE x \in S : TRUE
             hp == HasPath(orphanTfm, cache, d, pathMapping)
             rest == FolderFilter(S \ {d}, hp[2])
         IN IF hp[1] THEN rest
            ELSE IF isIgnoredPath(d, IgnorePaths)
            THEN [rest EXCEPT !.ignored = @ + 1]
            ELSE [rest EXCEPT !.keep = @ \cup {d}]

\* wg.Wait() returns; orphanFolderPaths is built and sorted
OrphanWait ==
    /\ orphanPc = "wait"
    /\ wg = 0
    /\ LET f == FolderFilter(localFolderPaths, pathCache)
       IN /\ pathCache' = f.cache
          /\ ignoredLocalFolders' = f.ignored
          /\ orphanFolderPaths' \in SortedByLength(f.keep)
    /\ orphanPc' = "folders"
    /\ UNCHANGED <<orphanTfm, pathMapping, IgnorePaths, GracePeriod, ModAge, diskFiles,
                   diskDirs, items, batchI, batch, workerSem, wg, worker,
                   removeFailures, removedLocalFiles, ignoredLocalFiles,
                   removedLocalFilesSize, removedLocalFolders>>
    /\ UNCHANGED <<poolVars, dirVars>>
    /\ UNCHANGED notOrphan

\* one iteration of "for _, localPath := range orphanFolderPaths"
OrphanFolder ==
    /\ orphanPc = "folders"
    /\ orphanFolderPaths # <<>>
    /\ orphanFolderPaths' = Tail(orphanFolderPaths)
    /\ LET localPath == Head(orphanFolderPaths)
       IN \E open \in {"ok", "err"} :
          \E res \in (IF open = "ok" /\ isDirEmpty(localPath) /\ ~flagDryRun
                      THEN {"ok", "err"} ELSE {"ok"}) :
           /\ dirEmptyErr' = (dirEmptyErr \/ open = "err")
           /\ IF open = "err" \/ ~isDirEmpty(localPath)
             THEN UNCHANGED <<diskDirs, removeFailures, removedLocalFolders>>
             ELSE IF flagDryRun
             THEN /\ removedLocalFolders' = removedLocalFolders + 1
                  /\ UNCHANGED <<diskDirs, removeFailures>>
             ELSE IF res = "err"
             THEN /\ removeFailures' = removeFailures + 1
                  /\ UNCHANGED <<diskDirs, removedLocalFolders>>
             ELSE /\ diskDirs' = diskDirs \ {localPath}
                  /\ removedLocalFolders' = removedLocalFolders + 1
                  /\ UNCHANGED removeFailures
    /\ UNCHANGED <<orphanTfm, pathMapping, IgnorePaths, GracePeriod, ModAge, diskFiles,
                   pathCache, orphanPc, items, batchI, batch, workerSem, wg, worker,
                   removedLocalFiles, ignoredLocalFiles, removedLocalFilesSize,
                   ignoredLocalFolders>>
    /\ UNCHANGED poolVars
    /\ UNCHANGED notOrphan

\* the folder loop is over: the summary line
OrphanDone == orphanPc = "folders" /\ orphanFolderPaths = <<>>

(***************************************************************************)
(* Specifications: a clean run, and a call of IsUnregistered.              *)
(***************************************************************************)
\* a clean run: removeEligibleTorrents over every torrent snapshot, disk and
\* configuration of the model
Init ==
    \* clean: the inputs and the state it starts from
    /\ files \in [Hashes -> SUBSET Paths \ {{}}]
    /\ downloaded \in DownloadedChoices
    /\ \E c \in Configs :
          /\ freeSpaceSet = c.freeSpaceSet
          /\ flagDryRun = c.dryRun
          /\ deleteData = c.deleteData
          /\ bypassIgnore = c.bypassIgnore
          /\ mapHardlinks = c.mapHardlinks
    /\ inode \in DiskChoices
    /\ clientTorrents = Hashes
    /\ removeCalls = {}
    /\ pc = "phase1"
    /\ torrents = Hashes
    /\ verdict = [h \in Hashes |-> "pending"]
    /\ reported = [h \in Hashes |-> [seen |-> FALSE, foi |-> TRUE, hli |-> TRUE]]
    /\ regState = [h \in Hashes |-> "Unknown"]
    /\ tfm = TfmNew(Hashes, files)
    /\ hfm = IF mapHardlinks THEN HfmNewFrom(EmptyHfm, inode, Hashes) ELSE EmptyHfm
    /\ hardlinkedCandidates = {}
    /\ fileOverlapCandidates = {}
    /\ fields = {}
    /\ ignoredTorrents = 0
    /\ hardRemoveTorrents = 0
    /\ errorRemoveTorrents = 0
    /\ removedTorrentBytes = 0
    /\ removedCandidates = 0
    /\ freeSpaceAdded = 0
    \* IsUnregistered: not under way
    /\ TrackerStatus = <<>>
    /\ TrackerName = "ptp"
    /\ trackerApi = "none"
    /\ unregPc = "idle"
    /\ unregResult = FALSE
    /\ statusMatched = FALSE
    /\ apiQueried = FALSE
    \* retag: not under way
    /\ tagRules = <<>>
    /\ Tags = [h \in RetagTorrents |-> <<>>]
    /\ UpLimit = [h \in RetagTorrents |-> 0]
    /\ ruleMatch = [h \in RetagTorrents |-> <<>>]
    /\ retagPc = "idle"
    /\ retagPending = {}
    /\ tagCalls = {}
    /\ retagIgnored = 0
    /\ retaggedTorrents = 0
    /\ retagOutcome = [h \in RetagTorrents |-> "none"]
    /\ firstRun = <<>>
    /\ errorRetaggedTorrents = 0
    /\ retagFields = {}
    \* orphan: not under way
    /\ orphanTfm = {}
    /\ pathMapping = {}
    /\ IgnorePaths = {}
    /\ GracePeriod = 0
    /\ ModAge = [p \in localFilePaths |-> 0]
    /\ diskFiles = {}
    /\ diskDirs = {}
    /\ pathCache = {}
    /\ orphanPc = "idle"
    /\ items = {}
    /\ batchI = 0
    /\ batch = <<>>
    /\ workerSem = 0
    /\ wg = 0
    /\ worker = [p \in localFilePaths |-> "queued"]
    /\ removeFailures = 0
    /\ removedLocalFiles = 0
    /\ ignoredLocalFiles = 0
    /\ removedLocalFilesSize = 0
    /\ orphanFolderPaths = <<>>
    /\ ignoredLocalFolders = 0
    /\ removedLocalFolders = 0
    \* the file-overlap index on its own: not under way
    /\ foiMap = <<>>
    /\ foiRemoved = {}
    /\ foiT = 1
    /\ foiPc = "idle"
    /\ foiBefore = <<>>
    \* the PTP plugin: not under way
    /\ ptpServer = [reply |-> "error", list |-> {}]
    /\ ptpHash = [g \in PtpQueries |-> "ab"]
    /\ ptpCache = {}
    /\ ptpFetched = FALSE
    /\ ptpApiError = FALSE
    /\ ptpMux = 0
    /\ ptpPc = [g \in PtpQueries |-> "off"]
    /\ ptpAnswer = [g \in PtpQueries |-> "none"]
    /\ ptpDown = [g \in PtpQueries |-> <<>>]
    /\ ptpFetches = 0
    /\ ptpFailed = FALSE
    \* processInBatches: its arguments and the calls of processFn
    /\ maxWorkers = MaxWorkers
    /\ itemsIn = {}
    /\ fnCalls = [p \in localFilePaths |-> 0]
    /\ dirEmptyErr = FALSE
    \* filter evaluation: not under way
    /\ evalIgnores = <<>>
    /\ evalRemoves = <<>>
    /\ evalSeeds = [t \in Hashes |-> 0]
    /\ evalFree = 0
    /\ evalDecision = [t \in Hashes |-> "off"]
    /\ evalFreeAt = [t \in Hashes |-> 0]
    /\ evalRan = [t \in Hashes |-> [ign |-> 0, rem |-> 0]]
    \* relabel: not under way
    /\ relabelDecision = [h \in Hashes |-> "no"]
    /\ relabelUnique = [h \in Hashes |-> TRUE]
    /\ flagCrossSeeds = FALSE
    /\ relabelPc = "idle"
    /\ relabelLeft = {}
    /\ relabelOutcome = [h \in Hashes |-> "none"]
    /\ labelCalls = {}
    /\ relabelIgnored = 0
    /\ nonUniqueTorrents = 0
    /\ relabeledTorrents = 0
    /\ errorRelabelTorrents = 0
    \* a second clean run over the same snapshot: not under way
    /\ firstClean = <<>>
    /\ inodeStart = [p \in Paths |-> 0]
    \* the adapter's RemoveTorrent: not under way
    /\ adapterKind = "qbittorrent"
    /\ adapterLeft = {}
    /\ adapterHash = 0
    /\ adapterPc = "idle"
    /\ apiCalls = <<>>
    /\ adapterOutcome = [h \in Hashes |-> "none"]

Next == CleanNext

Spec == Init /\ [][Next]_vars

UnregNext ==
    \/ UnregCheckDown
    \/ UnregMatchStatus
    \/ UnregQueryApi

RetagNext ==
    \/ RetagCreateTags
    \/ \E h \in RetagTorrents : RetagIterate(h)
    \/ RetagRerun

\* a retag run, dry or not
InitRetag ==
    /\ flagDryRun \in BOOLEAN
    \* clean: not under way
    /\ files = [h \in Hashes |-> {}]
    /\ downloaded = [h \in Hashes |-> TRUE]
    /\ freeSpaceSet = RefConfig.freeSpaceSet
    /\ deleteData = RefConfig.deleteData
    /\ bypassIgnore = RefConfig.bypassIgnore
    /\ mapHardlinks = RefConfig.mapHardlinks
    /\ inode = [p \in Paths |-> 0]
    /\ clientTorrents = {}
    /\ removeCalls = {}
    /\ pc = "idle"
    /\ torrents = {}
    /\ verdict = [h \in Hashes |-> "pending"]
    /\ reported = [h \in Hashes |-> [seen |-> FALSE, foi |-> TRUE, hli |-> TRUE]]
    /\ regState = [h \in Hashes |-> "Unknown"]
    /\ tfm = [p \in Paths |-> {}]
    /\ hfm = EmptyHfm
    /\ hardlinkedCandidates = {}
    /\ fileOverlapCandidates = {}
    /\ fields = {}
    /\ ignoredTorrents = 0
    /\ hardRemoveTorrents = 0
    /\ errorRemoveTorrents = 0
    /\ removedTorrentBytes = 0
    /\ removedCandidates = 0
    /\ freeSpaceAdded = 0
    \* IsUnregistered: not under way
    /\ TrackerStatus = <<>>
    /\ TrackerName = "ptp"
    /\ trackerApi = "none"
    /\ unregPc = "idle"
    /\ unregResult = FALSE
    /\ statusMatched = FALSE
    /\ apiQueried = FALSE
    \* retag: the inputs and the state it starts from
    /\ tagRules \in RuleSets
    /\ Tags \in RetagTagsChoices
    /\ UpLimit \in RetagUpLimitChoices
    /\ ruleMatch \in [RetagTorrents -> [DOMAIN tagRules -> BOOLEAN]]
    /\ retagPc = "createTags"
    /\ retagPending = RetagTorrents
    /\ tagCalls = {}
    /\ retagIgnored = 0
    /\ retaggedTorrents = 0
    /\ retagOutcome = [h \in RetagTorrents |-> "none"]
    /\ firstRun = <<>>
    /\ errorRetaggedTorrents = 0
    /\ retagFields = {}
    \* orphan: not under way
    /\ orphanTfm = {}
    /\ pathMapping = {}
    /\ IgnorePaths = {}
    /\ GracePeriod = 0
    /\ ModAge = [p \in localFilePaths |-> 0]
    /\ diskFiles = {}
    /\ diskDirs = {}
    /\ pathCache = {}
    /\ orphanPc = "idle"
    /\ items = {}
    /\ batchI = 0
    /\ batch = <<>>
    /\ workerSem = 0
    /\ wg = 0
    /\ worker = [p \in localFilePaths |-> "queued"]
    /\ removeFailures = 0
    /\ removedLocalFiles = 0
    /\ ignoredLocalFiles = 0
    /\ removedLocalFilesSize = 0
    /\ orphanFolderPaths = <<>>
    /\ ignoredLocalFolders = 0
    /\ removedLocalFolders = 0
    \* the file-overlap index on its own: not under way
    /\ foiMap = <<>>
    /\ foiRemoved = {}
    /\ foiT = 1
    /\ foiPc = "idle"
    /\ foiBefore = <<>>
    \* the PTP plugin: not under way
    /\ ptpServer = [reply |-> "error", list |-> {}]
    /\ ptpHash = [g \in PtpQueries |-> "ab"]
    /\ ptpCache = {}
    /\ ptpFetched = FALSE
    /\ ptpApiError = FALSE
    /\ ptpMux = 0
    /\ ptpPc = [g \in PtpQueries |-> "off"]
    /\ ptpAnswer = [g \in PtpQueries |-> "none"]
    /\ ptpDown = [g \in PtpQueries |-> <<>>]
    /\ ptpFetches = 0
    /\ ptpFailed = FALSE
    \* processInBatches: its arguments and the calls of processFn
    /\ maxWorkers = MaxWorkers
    /\ itemsIn = {}
    /\ fnCalls = [p \in localFilePaths |-> 0]
    /\ dirEmptyErr = FALSE
    \* filter evaluation: not under way
    /\ evalIgnores = <<>>
    /\ evalRemoves = <<>>
    /\ evalSeeds = [t \in Hashes |-> 0]
    /\ evalFree = 0
    /\ evalDecision = [t \in Hashes |-> "off"]
    /\ evalFreeAt = [t \in Hashes |-> 0]
    /\ evalRan = [t \in Hashes |-> [ign |-> 0, rem |-> 0]]
    \* relabel: not under way
    /\ relabelDecision = [h \in Hashes |-> "no"]
    /\ relabelUnique = [h \in Hashes |-> TRUE]
    /\ flagCrossSeeds = FALSE
    /\ relabelPc = "idle"
    /\ relabelLeft = {}
    /\ relabelOutcome = [h \in Hashes |-> "none"]
    /\ labelCalls = {}
    /\ relabelIgnored = 0
    /\ nonUniqueTorrents = 0
    /\ relabeledTorrents = 0
    /\ errorRelabelTorrents = 0
    \* a second clean run over the same snapshot: not under way
    /\ firstClean = <<>>
    /\ inodeStart = [p \in Paths |-> 0]
    \* the adapter's RemoveTorrent: not under way
    /\ adapterKind = "qbittorrent"
    /\ adapterLeft = {}
    /\ adapterHash = 0
    /\ adapterPc = "idle"
    /\ apiCalls = <<>>
    /\ adapterOutcome = [h \in Hashes |-> "none"]

SpecRetag == InitRetag /\ [][RetagNext]_vars

\* one call of IsUnregistered on every status, tracker and plugin of the model
InitUnreg ==
    /\ flagDryRun = FALSE
    \* clean: not under way
    /\ files = [h \in Hashes |-> {}]
    /\ downloaded = [h \in Hashes |-> TRUE]
    /\ freeSpaceSet = RefConfig.freeSpaceSet
    /\ deleteData = RefConfig.deleteData
    /\ bypassIgnore = RefConfig.bypassIgnore
    /\ mapHardlinks = RefConfig.mapHardlinks
    /\ inode = [p \in Paths |-> 0]
    /\ clientTorrents = {}
    /\ removeCalls = {}
    /\ pc = "idle"
    /\ torrents = {}
    /\ verdict = [h \in Hashes |-> "pending"]
    /\ reported = [h \in Hashes |-> [seen |-> FALSE, foi |-> TRUE, hli |-> TRUE]]
    /\ regState = [h \in Hashes |-> "Unknown"]
    /\ tfm = [p \in Paths |-> {}]
    /\ hfm = EmptyHfm
    /\ hardlinkedCandidates = {}
    /\ fileOverlapCandidates = {}
    /\ fields = {}
    /\ ignoredTorrents = 0
    /\ hardRemoveTorrents = 0
    /\ errorRemoveTorrents = 0
    /\ removedTorrentBytes = 0
    /\ removedCandidates = 0
    /\ freeSpaceAdded = 0
    \* IsUnregistered: the inputs and the state it starts from
    /\ TrackerStatus \in Statuses
    /\ TrackerName \in TrackerNames
    /\ trackerApi \in TrackerApis
    /\ unregPc = "start"
    /\ unregResult = FALSE
    /\ statusMatched = FALSE
    /\ apiQueried = FALSE
    \* retag: not under way
    /\ tagRules = <<>>
    /\ Tags = [h \in RetagTorrents |-> <<>>]
    /\ UpLimit = [h \in RetagTorrents |-> 0]
    /\ ruleMatch = [h \in RetagTorrents |-> <<>>]
    /\ retagPc = "idle"
    /\ retagPending = {}
    /\ tagCalls = {}
    /\ retagIgnored = 0
    /\ retaggedTorrents = 0
    /\ retagOutcome = [h \in RetagTorrents |-> "none"]
    /\ firstRun = <<>>
    /\ errorRetaggedTorrents = 0
    /\ retagFields = {}
    \* orphan: not under way
    /\ orphanTfm = {}
    /\ pathMapping = {}
    /\ IgnorePaths = {}
    /\ GracePeriod = 0
    /\ ModAge = [p \in localFilePaths |-> 0]
    /\ diskFiles = {}
    /\ diskDirs = {}
    /\ pathCache = {}
    /\ orphanPc = "idle"
    /\ items = {}
    /\ batchI = 0
    /\ batch = <<>>
    /\ workerSem = 0
    /\ wg = 0
    /\ worker = [p \in localFilePaths |-> "queued"]
    /\ removeFailures = 0
    /\ removedLocalFiles = 0
    /\ ignoredLocalFiles = 0
    /\ removedLocalFilesSize = 0
    /\ orphanFolderPaths = <<>>
    /\ ignoredLocalFolders = 0
    /\ removedLocalFolders = 0
    \* the file-overlap index on its own: not under way
    /\ foiMap = <<>>
    /\ foiRemoved = {}
    /\ foiT = 1
    /\ foiPc = "idle"
    /\ foiBefore = <<>>
    \* the PTP plugin: not under way
    /\ ptpServer = [reply |-> "error", list |-> {}]
    /\ ptpHash = [g \in PtpQueries |-> "ab"]
    /\ ptpCache = {}
    /\ ptpFetched = FALSE
    /\ ptpApiError = FALSE
    /\ ptpMux = 0
    /\ ptpPc = [g \in PtpQueries |-> "off"]
    /\ ptpAnswer = [g \in PtpQueries |-> "none"]
    /\ ptpDown = [g \in PtpQueries |-> <<>>]
    /\ ptpFetches = 0
    /\ ptpFailed = FALSE
    \* processInBatches: its arguments and the calls of processFn
    /\ maxWorkers = MaxWorkers
    /\ itemsIn = {}
    /\ fnCalls = [p \in localFilePaths |-> 0]
    /\ dirEmptyErr = FALSE
    \* filter evaluation: not under way
    /\ evalIgnores = <<>>
    /\ evalRemoves = <<>>
    /\ evalSeeds = [t \in Hashes |-> 0]
    /\ evalFree = 0
    /\ evalDecision = [t \in Hashes |-> "off"]
    /\ evalFreeAt = [t \in Hashes |-> 0]
    /\ evalRan = [t \in Hashes |-> [ign |-> 0, rem |-> 0]]
    \* relabel: not under way
    /\ relabelDecision = [h \in Hashes |-> "no"]
    /\ relabelUnique = [h \in Hashes |-> TRUE]
    /\ flagCrossSeeds = FALSE
    /\ relabelPc = "idle"
    /\ relabelLeft = {}
    /\ relabelOutcome = [h \in Hashes |-> "none"]
    /\ labelCalls = {}
    /\ relabelIgnored = 0
    /\ nonUniqueTorrents = 0
    /\ relabeledTorrents = 0
    /\ errorRelabelTorrents = 0
    \* a second clean run over the same snapshot: not under way
    /\ firstClean = <<>>
    /\ inodeStart = [p \in Paths |-> 0]
    \* the adapter's RemoveTorrent: not under way
    /\ adapterKind = "qbittorrent"
    /\ adapterLeft = {}
    /\ adapterHash = 0
    /\ adapterPc = "idle"
    /\ apiCalls = <<>>
    /\ adapterOutcome = [h \in Hashes |-> "none"]

SpecUnreg == InitUnreg /\ [][UnregNext]_vars

OrphanNext ==
    \/ \E k \in localFilePaths : OrphanRange(k)
    \/ OrphanSpawn
    \/ \E p \in localFilePaths : OrphanWorkerCheck(p)
    \/ \E p \in localFilePaths : OrphanWorkerStat(p)
    \/ \E p \in localFilePaths : OrphanWorkerRemove(p)
    \/ OrphanWait
    \/ OrphanFolder

\* an orphan run, dry or not
InitOrphan ==
    /\ flagDryRun \in BOOLEAN
    \* clean: not under way
    /\ files = [h \in Hashes |-> {}]
    /\ downloaded = [h \in Hashes |-> TRUE]
    /\ freeSpaceSet = RefConfig.freeSpaceSet
    /\ deleteData = RefConfig.deleteData
    /\ bypassIgnore = RefConfig.bypassIgnore
    /\ mapHardlinks = RefConfig.mapHardlinks
    /\ inode = [p \in Paths |-> 0]
    /\ clientTorrents = {}
    /\ removeCalls = {}
    /\ pc = "idle"
    /\ torrents = {}
    /\ verdict = [h \in Hashes |-> "pending"]
    /\ reported = [h \in Hashes |-> [seen |-> FALSE, foi |-> TRUE, hli |-> TRUE]]
    /\ regState = [h \in Hashes |-> "Unknown"]
    /\ tfm = [p \in Paths |-> {}]
    /\ hfm = EmptyHfm
    /\ hardlinkedCandidates = {}
    /\ fileOverlapCandidates = {}
    /\ fields = {}
    /\ ignoredTorrents = 0
    /\ hardRemoveTorrents = 0
    /\ errorRemoveTorrents = 0
    /\ removedTorrentBytes = 0
    /\ removedCandidates = 0
    /\ freeSpaceAdded = 0
    \* IsUnregistered: not under way
    /\ TrackerStatus = <<>>
    /\ TrackerName = "ptp"
    /\ trackerApi = "none"
    /\ unregPc = "idle"
    /\ unregResult = FALSE
    /\ statusMatched = FALSE
    /\ apiQueried = FALSE
    \* retag: not under way
    /\ tagRules = <<>>
    /\ Tags = [h \in RetagTorrents |-> <<>>]
    /\ UpLimit = [h \in RetagTorrents |-> 0]
    /\ ruleMatch = [h \in RetagTorrents |-> <<>>]
    /\ retagPc = "idle"
    /\ retagPending = {}
    /\ tagCalls = {}
    /\ retagIgnored = 0
    /\ retaggedTorrents = 0
    /\ retagOutcome = [h \in RetagTorrents |-> "none"]
    /\ firstRun = <<>>
    /\ errorRetaggedTorrents = 0
    /\ retagFields = {}
    \* orphan: the inputs and the state it starts from
    /\ \E t \in TrackingChoices : orphanTfm = t.tfm /\ pathMapping = t.mapping
    /\ IgnorePaths \in IgnoreChoices
    /\ GracePeriod \in {0, 1}
    /\ ModAge \in [localFilePaths -> {1, 2}]
    /\ diskFiles = localFilePaths
    /\ diskDirs = localFolderPaths
    /\ pathCache = {}
    /\ orphanPc = "range"
    /\ items = localFilePaths
    /\ batchI = 0
    /\ batch = <<>>
    /\ workerSem = 0
    /\ wg = 0
    /\ worker = [p \in localFilePaths |-> "queued"]
    /\ removeFailures = 0
    /\ removedLocalFiles = 0
    /\ ignoredLocalFiles = 0
    /\ removedLocalFilesSize = 0
    /\ orphanFolderPaths = <<>>
    /\ ignoredLocalFolders = 0
    /\ removedLocalFolders = 0
    \* the file-overlap index on its own: not under way
    /\ foiMap = <<>>
    /\ foiRemoved = {}
    /\ foiT = 1
    /\ foiPc = "idle"
    /\ foiBefore = <<>>
    \* the PTP plugin: not under way
    /\ ptpServer = [reply |-> "error", list |-> {}]
    /\ ptpHash = [g \in PtpQueries |-> "ab"]
    /\ ptpCache = {}
    /\ ptpFetched = FALSE
    /\ ptpApiError = FALSE
    /\ ptpMux = 0
    /\ ptpPc = [g \in PtpQueries |-> "off"]
    /\ ptpAnswer = [g \in PtpQueries |-> "none"]
    /\ ptpDown = [g \in PtpQueries |-> <<>>]
    /\ ptpFetches = 0
    /\ ptpFailed = FALSE
    \* processInBatches(localFilePaths, maxWorkers, batchSize, processFn, &wg)
    /\ maxWorkers = MaxWorkers
    /\ itemsIn = localFilePaths
    /\ fnCalls = [p \in localFilePaths |-> 0]
    /\ dirEmptyErr = FALSE
    \* filter evaluation: not under way
    /\ evalIgnores = <<>>
    /\ evalRemoves = <<>>
    /\ evalSeeds = [t \in Hashes |-> 0]
    /\ evalFree = 0
    /\ evalDecision = [t \in Hashes |-> "off"]
    /\ evalFreeAt = [t \in Hashes |-> 0]
    /\ evalRan = [t \in Hashes |-> [ign |-> 0, rem |-> 0]]
    \* relabel: not under way
    /\ relabelDecision = [h \in Hashes |-> "no"]
    /\ relabelUnique = [h \in Hashes |-> TRUE]
    /\ flagCrossSeeds = FALSE
    /\ relabelPc = "idle"
    /\ relabelLeft = {}
    /\ relabelOutcome = [h \in Hashes |-> "none"]
    /\ labelCalls = {}
    /\ relabelIgnored = 0
    /\ nonUniqueTorrents = 0
    /\ relabeledTorrents = 0
    /\ errorRelabelTorrents = 0
    \* a second clean run over the same snapshot: not under way
    /\ firstClean = <<>>
    /\ inodeStart = [p \in Paths |-> 0]
    \* the adapter's RemoveTorrent: not under way
    /\ adapterKind = "qbittorrent"
    /\ adapterLeft = {}
    /\ adapterHash = 0
    /\ adapterPc = "idle"
    /\ apiCalls = <<>>
    /\ adapterOutcome = [h \in Hashes |-> "none"]

SpecOrphan == InitOrphan /\ [][OrphanNext]_vars

\* an orphan run over any set of files on the disk, with any pool size
InitBatches ==
    /\ flagDryRun \in BOOLEAN
    \* clean: not under way
    /\ files = [h \in Hashes |-> {}]
    /\ downloaded = [h \in Hashes |-> TRUE]
    /\ freeSpaceSet = RefConfig.freeSpaceSet
    /\ deleteData = RefConfig.deleteData
    /\ bypassIgnore = RefConfig.bypassIgnore
    /\ mapHardlinks = RefConfig.mapHardlinks
    /\ inode = [p \in Paths |-> 0]
    /\ clientTorrents = {}
    /\ removeCalls = {}
    /\ pc = "idle"
    /\ torrents = {}
    /\ verdict = [h \in Hashes |-> "pending"]
    /\ reported = [h \in Hashes |-> [seen |-> FALSE, foi |-> TRUE, hli |-> TRUE]]
    /\ regState = [h \in Hashes |-> "Unknown"]
    /\ tfm = [p \in Paths |-> {}]
    /\ hfm = EmptyHfm
    /\ hardlinkedCandidates = {}
    /\ fileOverlapCandidates = {}
    /\ fields = {}
    /\ ignoredTorrents = 0
    /\ hardRemoveTorrents = 0
    /\ errorRemoveTorrents = 0
    /\ removedTorrentBytes = 0
    /\ removedCandidates = 0
    /\ freeSpaceAdded = 0
    \* IsUnregistered: not under way
    /\ TrackerStatus = <<>>
    /\ TrackerName = "ptp"
    /\ trackerApi = "none"
    /\ unregPc = "idle"
    /\ unregResult = FALSE
    /\ statusMatched = FALSE
    /\ apiQueried = FALSE
    \* retag: not under way
    /\ tagRules = <<>>
    /\ Tags = [h \in RetagTorrents |-> <<>>]
    /\ UpLimit = [h \in RetagTorrents |-> 0]
    /\ ruleMatch = [h \in RetagTorrents |-> <<>>]
    /\ retagPc = "idle"
    /\ retagPending = {}
    /\ tagCalls = {}
    /\ retagIgnored = 0
    /\ retaggedTorrents = 0
    /\ retagOutcome = [h \in RetagTorrents |-> "none"]
    /\ firstRun = <<>>
    /\ errorRetaggedTorrents = 0
    /\ retagFields = {}
    \* orphan: the inputs and the state it starts from
    /\ \E t \in TrackingChoices : orphanTfm = t.tfm /\ pathMapping = t.mapping
    /\ IgnorePaths = {}
    /\ GracePeriod = 1
    /\ ModAge \in [localFilePaths -> {1, 2}]
    /\ diskFiles \in SUBSET localFilePaths
    /\ diskDirs = localFolderPaths
    /\ pathCache = {}
    /\ orphanPc = (IF diskFiles = {} THEN "wait" ELSE "range")
    /\ items = diskFiles
    /\ batchI = 0
    /\ batch = <<>>
    /\ workerSem = 0
    /\ wg = 0
    /\ worker = [p \in localFilePaths |-> "queued"]
    /\ removeFailures = 0
    /\ removedLocalFiles = 0
    /\ ignoredLocalFiles = 0
    /\ removedLocalFilesSize = 0
    /\ orphanFolderPaths = <<>>
    /\ ignoredLocalFolders = 0
    /\ removedLocalFolders = 0
    \* the file-overlap index on its own: not under way
    /\ foiMap = <<>>
    /\ foiRemoved = {}
    /\ foiT = 1
    /\ foiPc = "idle"
    /\ foiBefore = <<>>
    \* the PTP plugin: not under way
    /\ ptpServer = [reply |-> "error", list |-> {}]
    /\ ptpHash = [g \in PtpQueries |-> "ab"]
    /\ ptpCache = {}
    /\ ptpFetched = FALSE
    /\ ptpApiError = FALSE
    /\ ptpMux = 0
    /\ ptpPc = [g \in PtpQueries |-> "off"]
    /\ ptpAnswer = [g \in PtpQueries |-> "none"]
    /\ ptpDown = [g \in PtpQueries |-> <<>>]
    /\ ptpFetches = 0
    /\ ptpFailed = FALSE
    \* processInBatches over the files found, with any pool size
    /\ maxWorkers \in 1..MaxWorkers
    /\ itemsIn = diskFiles
    /\ fnCalls = [p \in localFilePaths |-> 0]
    /\ dirEmptyErr = FALSE
    \* filter evaluation: not under way
    /\ evalIgnores = <<>>
    /\ evalRemoves = <<>>
    /\ evalSeeds = [t \in Hashes |-> 0]
    /\ evalFree = 0
    /\ evalDecision = [t \in Hashes |-> "off"]
    /\ evalFreeAt = [t \in Hashes |-> 0]
    /\ evalRan = [t \in Hashes |-> [ign |-> 0, rem |-> 0]]
    \* relabel: not under way
    /\ relabelDecision = [h \in Hashes |-> "no"]
    /\ relabelUnique = [h \in Hashes |-> TRUE]
    /\ flagCrossSeeds = FALSE
    /\ relabelPc = "idle"
    /\ relabelLeft = {}
    /\ relabelOutcome = [h \in Hashes |-> "none"]
    /\ labelCalls = {}
    /\ relabelIgnored = 0
    /\ nonUniqueTorrents = 0
    /\ relabeledTorrents = 0
    /\ errorRelabelTorrents = 0
    \* a second clean run over the same snapshot: not under way
    /\ firstClean = <<>>
    /\ inodeStart = [p \in Paths |-> 0]
    \* the adapter's RemoveTorrent: not under way
    /\ adapterKind = "qbittorrent"
    /\ adapterLeft = {}
    /\ adapterHash = 0
    /\ adapterPc = "idle"
    /\ apiCalls = <<>>
    /\ adapterOutcome = [h \in Hashes |-> "none"]


SpecBatches == InitBatches /\ [][OrphanNext]_vars

(***************************************************************************)
(* The file-overlap index on its own (pkg/torrentfilemap).  Here the map   *)
(* is kept as Go keeps it, a key being present or absent; the clean run    *)
(* above reads it through "exists && len(...)" only, where an absent key   *)
(* and an empty set are one.                                               *)
(***************************************************************************)
\* New: addInternal for every torrent
FoiMapNew(T, fls) ==
    [p \in {q \in Paths : \E h \in T : q \in fls[h]} |-> {h \in T : p \in fls[h]}]

\* Add: the hash is put under every declared path, a missing key is created
FoiMapAdd(m, h, fls) ==
    [p \in DOMAIN m \cup fls |->
        IF p \in fls THEN (IF p \in DOMAIN m THEN m[p] \cup {h} ELSE {h})
        ELSE m[p]]

\* variant: Remove takes the hash out and keeps the emptied key
FoiMapRemoveKeepsKey(m, h, fls) ==
    [p \in DOMAIN m |-> IF p \in fls THEN m[p] \ {h} ELSE m[p]]

\* Remove: the hash is deleted under every declared path that has a key, and
\* a key left without hashes is deleted
FoiMapRemove(m, h, fls) ==
    LET less == [p \in DOMAIN m |-> IF p \in fls THEN m[p] \ {h} ELSE m[p]]
    IN [p \in {q \in DOMAIN m : ~(q \in fls /\ less[q] = {})} |-> less[p]]

\* tfm.Add(foiT)
FoiAdd ==
    /\ foiPc = "start"
    /\ foiBefore' = foiMap
    /\ foiMap' = FoiMapAdd(foiMap, foiT, files[foiT])
    /\ foiPc' = "added"
    /\ UNCHANGED <<foiRemoved, foiT>>
    /\ UNCHANGED notFoi

\* tfm.Remove(foiT)
FoiRemove ==
    /\ foiPc = "added"
    /\ foiMap' = FoiMapRemove(foiMap, foiT, files[foiT])
    /\ foiPc' = "removed"
    /\ UNCHANGED <<foiRemoved, foiT, foiBefore>>
    /\ UNCHANGED notFoi

FoiNext == FoiAdd \/ FoiRemove

\* Add and then Remove of one torrent, on the index of every set of torrents
InitFoi ==
    /\ flagDryRun = FALSE
    \* clean: not under way; files are the torrents' declared paths
    /\ files \in [Hashes -> SUBSET Paths]
    /\ downloaded = [h \in Hashes |-> TRUE]
    /\ freeSpaceSet = RefConfig.freeSpaceSet
    /\ deleteData = RefConfig.deleteData
    /\ bypassIgnore = RefConfig.bypassIgnore
    /\ mapHardlinks = RefConfig.mapHardlinks
    /\ inode = [p \in Paths |-> 0]
    /\ clientTorrents = {}
    /\ removeCalls = {}
    /\ pc = "idle"
    /\ torrents = {}
    /\ verdict = [h \in Hashes |-> "pending"]
    /\ reported = [h \in Hashes |-> [seen |-> FALSE, foi |-> TRUE, hli |-> TRUE]]
    /\ regState = [h \in Hashes |-> "Unknown"]
    /\ tfm = [p \in Paths |-> {}]
    /\ hfm = EmptyHfm
    /\ hardlinkedCandidates = {}
    /\ fileOverlapCandidates = {}
    /\ fields = {}
    /\ ignoredTorrents = 0
    /\ hardRemoveTorrents = 0
    /\ errorRemoveTorrents = 0
    /\ removedTorrentBytes = 0
    /\ removedCandidates = 0
    /\ freeSpaceAdded = 0
    \* IsUnregistered: not under way
    /\ TrackerStatus = <<>>
    /\ TrackerName = "ptp"
    /\ trackerApi = "none"
    /\ unregPc = "idle"
    /\ unregResult = FALSE
    /\ statusMatched = FALSE
    /\ apiQueried = FALSE
    \* retag: not under way
    /\ tagRules = <<>>
    /\ Tags = [h \in RetagTorrents |-> <<>>]
    /\ UpLimit = [h \in RetagTorrents |-> 0]
    /\ ruleMatch = [h \in RetagTorrents |-> <<>>]
    /\ retagPc = "idle"
    /\ retagPending = {}
    /\ tagCalls = {}
    /\ retagIgnored = 0
    /\ retaggedTorrents = 0
    /\ retagOutcome = [h \in RetagTorrents |-> "none"]
    /\ firstRun = <<>>
    /\ errorRetaggedTorrents = 0
    /\ retagFields = {}
    \* orphan: not under way
    /\ orphanTfm = {}
    /\ pathMapping = {}
    /\ IgnorePaths = {}
    /\ GracePeriod = 0
    /\ ModAge = [p \in localFilePaths |-> 0]
    /\ diskFiles = {}
    /\ diskDirs = {}
    /\ pathCache = {}
    /\ orphanPc = "idle"
    /\ items = {}
    /\ batchI = 0
    /\ batch = <<>>
    /\ workerSem = 0
    /\ wg = 0
    /\ worker = [p \in localFilePaths |-> "queued"]
    /\ removeFailures = 0
    /\ removedLocalFiles = 0
    /\ ignoredLocalFiles = 0
    /\ removedLocalFilesSize = 0
    /\ orphanFolderPaths = <<>>
    /\ ignoredLocalFolders = 0
    /\ removedLocalFolders = 0
    \* the file-overlap index: built by New from the torrents that are left
    /\ foiRemoved \in SUBSET Hashes
    /\ foiMap = FoiMapNew(Hashes \ foiRemoved, files)
    /\ foiT \in Hashes
    /\ foiPc = "start"
    /\ foiBefore = <<>>
    \* the PTP plugin: not under way
    /\ ptpServer = [reply |-> "error", list |-> {}]
    /\ ptpHash = [g \in PtpQueries |-> "ab"]
    /\ ptpCache = {}
    /\ ptpFetched = FALSE
    /\ ptpApiError = FALSE
    /\ ptpMux = 0
    /\ ptpPc = [g \in PtpQueries |-> "off"]
    /\ ptpAnswer = [g \in PtpQueries |-> "none"]
    /\ ptpDown = [g \in PtpQueries |-> <<>>]
    /\ ptpFetches = 0
    /\ ptpFailed = FALSE
    \* processInBatches: its arguments and the calls of processFn
    /\ maxWorkers = MaxWorkers
    /\ itemsIn = {}
    /\ fnCalls = [p \in localFilePaths |-> 0]
    /\ dirEmptyErr = FALSE
    \* filter evaluation: not under way
    /\ evalIgnores = <<>>
    /\ evalRemoves = <<>>
    /\ evalSeeds = [t \in Hashes |-> 0]
    /\ evalFree = 0
    /\ evalDecision = [t \in Hashes |-> "off"]
    /\ evalFreeAt = [t \in Hashes |-> 0]
    /\ evalRan = [t \in Hashes |-> [ign |-> 0, rem |-> 0]]
    \* relabel: not under way
    /\ relabelDecision = [h \in Hashes |-> "no"]
    /\ relabelUnique = [h \in Hashes |-> TRUE]
    /\ flagCrossSeeds = FALSE
    /\ relabelPc = "idle"
    /\ relabelLeft = {}
    /\ relabelOutcome = [h \in Hashes |-> "none"]
    /\ labelCalls = {}
    /\ relabelIgnored = 0
    /\ nonUniqueTorrents = 0
    /\ relabeledTorrents = 0
    /\ errorRelabelTorrents = 0
    \* a second clean run over the same snapshot: not under way
    /\ firstClean = <<>>
    /\ inodeStart = [p \in Paths |-> 0]
    \* the adapter's RemoveTorrent: not under way
    /\ adapterKind = "qbittorrent"
    /\ adapterLeft = {}
    /\ adapterHash = 0
    /\ adapterPc = "idle"
    /\ apiCalls = <<>>
    /\ adapterOutcome = [h \in Hashes |-> "none"]

SpecFoi == InitFoi /\ [][FoiNext]_vars

(***************************************************************************)
(* The PTP plugin (pkg/tracker/ptp.go).  One PTP value serves every query  *)
(* of a run; each query runs IsUnregistered on a goroutine of its own and  *)
(* may ask IsTrackerDown before or after it.                               *)
(***************************************************************************)

\* info hashes as the client and the endpoint spell them
PtpClientHashes == {"ab", "AB", "cd"}
PtpListedHashes == {"ab", "CD"}

\* strings.ToUpper on the hashes above
ToUpper(s) ==
    CASE s = "ab" -> "AB"
      [] s = "cd" -> "CD"
      [] OTHER -> s

\* what MakeAPIRequest leaves in resp and err
PtpReplies ==
    {[reply |-> r, list |-> {}] : r \in {"error", "nil"}}
        \cup {[reply |-> "list", list |-> l] : l \in SUBSET PtpListedHashes}

\* variant: Lock does not wait for the goroutine that holds the mutex
PtpLockNoWait(g) ==
    /\ ptpPc[g] = "start"
    /\ ptpMux' = g
    /\ ptpPc' = [ptpPc EXCEPT ![g] = "locked"]
    /\ UNCHANGED <<ptpServer, ptpHash, ptpCache, ptpFetched, ptpApiError, ptpAnswer,
                   ptpDown, ptpFetches, ptpFailed>>
    /\ UNCHANGED notPtp

\* c.unregisteredCacheMux.Lock()
PtpLock(g) ==
    /\ ptpPc[g] = "start"
    /\ ptpMux = 0
    /\ ptpMux' = g
    /\ ptpPc' = [ptpPc EXCEPT ![g] = "locked"]
    /\ UNCHANGED <<ptpServer, ptpHash, ptpCache, ptpFetched, ptpApiError, ptpAnswer,
                   ptpDown, ptpFetches, ptpFailed>>
    /\ UNCHANGED notPtp

\* fetchUnregisteredTorrents, called with the lock held when nothing was fetched
PtpFetch(g) ==
    /\ ptpPc[g] = "locked"
    /\ ~ptpFetched
    /\ ptpFetches' = ptpFetches + 1
    /\ IF ptpServer.reply # "list"
         THEN /\ ptpApiError' = TRUE
              /\ ptpFailed' = TRUE
              /\ ptpPc' = [ptpPc EXCEPT ![g] = "fetchErr"]
              /\ UNCHANGED ptpCache
         ELSE /\ ptpCache' = {ToUpper(h) : h \in ptpServer.list}
              /\ ptpPc' = [ptpPc EXCEPT ![g] = "fetchOk"]
              /\ UNCHANGED <<ptpApiError, ptpFailed>>
    /\ UNCHANGED <<ptpServer, ptpHash, ptpFetched, ptpMux, ptpAnswer, ptpDown>>
    /\ UNCHANGED notPtp

\* the error branch of IsUnregistered: no further fetch is to be tried
PtpFetchFailedRetry(g) ==
    /\ ptpPc[g] = "fetchErr"
    /\ ptpMux' = 0
    /\ ptpAnswer' = [ptpAnswer EXCEPT ![g] = "false"]
    /\ ptpPc' = [ptpPc EXCEPT ![g] = "returned"]
    /\ UNCHANGED <<ptpServer, ptpHash, ptpCache, ptpFetched, ptpApiError, ptpDown, ptpFetches,
                   ptpFailed>>
    /\ UNCHANGED notPtp

\* the error branch of IsUnregistered: mark as fetched, unlock, return nil, false
PtpFetchFailed(g) ==
    /\ ptpPc[g] = "fetchErr"
    /\ ptpFetched' = TRUE
    /\ ptpMux' = 0
    /\ ptpAnswer' = [ptpAnswer EXCEPT ![g] = "false"]
    /\ ptpPc' = [ptpPc EXCEPT ![g] = "returned"]
    /\ UNCHANGED <<ptpServer, ptpHash, ptpCache, ptpApiError, ptpDown, ptpFetches,
                   ptpFailed>>
    /\ UNCHANGED notPtp

\* c.unregisteredFetched = true (after a fetch) and c.unregisteredCacheMux.Unlock()
PtpUnlock(g) ==
    /\ \/ ptpPc[g] = "fetchOk"
       \/ ptpPc[g] = "locked" /\ ptpFetched
    /\ ptpFetched' = TRUE
    /\ ptpMux' = 0
    /\ ptpPc' = [ptpPc EXCEPT ![g] = "unlocked"]
    /\ UNCHANGED <<ptpServer, ptpHash, ptpCache, ptpApiError, ptpAnswer, ptpDown,
                   ptpFetches, ptpFailed>>
    /\ UNCHANGED notPtp

\* RLock, c.unregisteredCache[strings.ToUpper(torrent.Hash)], RUnlock, return
PtpLookup(g) ==
    /\ ptpPc[g] = "unlocked"
    /\ ptpMux = 0
    /\ ptpAnswer' = [ptpAnswer EXCEPT ![g] =
                        IF ToUpper(ptpHash[g]) \in ptpCache THEN "true" ELSE "false"]
    /\ ptpPc' = [ptpPc EXCEPT ![g] = "returned"]
    /\ UNCHANGED <<ptpServer, ptpHash, ptpCache, ptpFetched, ptpApiError, ptpMux,
                   ptpDown, ptpFetches, ptpFailed>>
    /\ UNCHANGED notPtp

\* the plugin that never reports its tracker as down
PtpIsTrackerDownNever(g) ==
    /\ ptpPc[g] \in {"start", "returned"}
    /\ ptpDown[g] = <<>>
    /\ ptpDown' = [ptpDown EXCEPT ![g] = <<[failed |-> ptpFailed, down |-> FALSE]>>]
    /\ UNCHANGED <<ptpServer, ptpHash, ptpCache, ptpFetched, ptpApiError, ptpMux, ptpPc,
                   ptpAnswer, ptpFetches, ptpFailed>>
    /\ UNCHANGED notPtp

\* IsTrackerDown: return nil, c.apiError (read without the lock)
PtpIsTrackerDown(g) ==
    /\ ptpPc[g] \in {"start", "returned"}
    /\ ptpDown[g] = <<>>
    /\ ptpDown' = [ptpDown EXCEPT ![g] = <<[failed |-> ptpFailed, down |-> ptpApiError]>>]
    /\ UNCHANGED <<ptpServer, ptpHash, ptpCache, ptpFetched, ptpApiError, ptpMux, ptpPc,
                   ptpAnswer, ptpFetches, ptpFailed>>
    /\ UNCHANGED notPtp

PtpNext ==
    \E g \in PtpQueries :
        \/ PtpLock(g)
        \/ PtpFetch(g)
        \/ PtpFetchFailed(g)
        \/ PtpUnlock(g)
        \/ PtpLookup(g)
        \/ PtpIsTrackerDown(g)

InitPtp ==
    /\ flagDryRun = FALSE
    \* clean: not under way
    /\ files = [h \in Hashes |-> {}]
    /\ downloaded = [h \in Hashes |-> TRUE]
    /\ freeSpaceSet = RefConfig.freeSpaceSet
    /\ deleteData = RefConfig.deleteData
    /\ bypassIgnore = RefConfig.bypassIgnore
    /\ mapHardlinks = RefConfig.mapHardlinks
    /\ inode = [p \in Paths |-> 0]
    /\ clientTorrents = {}
    /\ removeCalls = {}
    /\ pc = "idle"
    /\ torrents = {}
    /\ verdict = [h \in Hashes |-> "pending"]
    /\ reported = [h \in Hashes |-> [seen |-> FALSE, foi |-> TRUE, hli |-> TRUE]]
    /\ regState = [h \in Hashes |-> "Unknown"]
    /\ tfm = [p \in Paths |-> {}]
    /\ hfm = EmptyHfm
    /\ hardlinkedCandidates = {}
    /\ fileOverlapCandidates = {}
    /\ fields = {}
    /\ ignoredTorrents = 0
    /\ hardRemoveTorrents = 0
    /\ errorRemoveTorrents = 0
    /\ removedTorrentBytes = 0
    /\ removedCandidates = 0
    /\ freeSpaceAdded = 0
    \* IsUnregistered: not under way
    /\ TrackerStatus = <<>>
    /\ TrackerName = "ptp"
    /\ trackerApi = "none"
    /\ unregPc = "idle"
    /\ unregResult = FALSE
    /\ statusMatched = FALSE
    /\ apiQueried = FALSE
    \* retag: not under way
    /\ tagRules = <<>>
    /\ Tags = [h \in RetagTorrents |-> <<>>]
    /\ UpLimit = [h \in RetagTorrents |-> 0]
    /\ ruleMatch = [h \in RetagTorrents |-> <<>>]
    /\ retagPc = "idle"
    /\ retagPending = {}
    /\ tagCalls = {}
    /\ retagIgnored = 0
    /\ retaggedTorrents = 0
    /\ retagOutcome = [h \in RetagTorrents |-> "none"]
    /\ firstRun = <<>>
    /\ errorRetaggedTorrents = 0
    /\ retagFields = {}
    \* orphan: not under way
    /\ orphanTfm = {}
    /\ pathMapping = {}
    /\ IgnorePaths = {}
    /\ GracePeriod = 0
    /\ ModAge = [p \in localFilePaths |-> 0]
    /\ diskFiles = {}
    /\ diskDirs = {}
    /\ pathCache = {}
    /\ orphanPc = "idle"
    /\ items = {}
    /\ batchI = 0
    /\ batch = <<>>
    /\ workerSem = 0
    /\ wg = 0
    /\ worker = [p \in localFilePaths |-> "queued"]
    /\ removeFailures = 0
    /\ removedLocalFiles = 0
    /\ ignoredLocalFiles = 0
    /\ removedLocalFilesSize = 0
    /\ orphanFolderPaths = <<>>
    /\ ignoredLocalFolders = 0
    /\ removedLocalFolders = 0
    /\ reported = [h \in Hashes |-> [seen |-> FALSE, foi |-> TRUE, hli |-> TRUE]]
    /\ foiMap = <<>>
    /\ foiRemoved = {}
    /\ foiT = 1
    /\ foiPc = "idle"
    /\ foiBefore = <<>>
    \* NewPTP: an empty cache, nothing fetched, no error
    /\ ptpServer \in PtpReplies
    /\ ptpHash \in [PtpQueries -> PtpClientHashes]
    /\ ptpCache = {}
    /\ ptpFetched = FALSE
    /\ ptpApiError = FALSE
    /\ ptpMux = 0
    /\ ptpPc = [g \in PtpQueries |-> "start"]
    /\ ptpAnswer = [g \in PtpQueries |-> "none"]
    /\ ptpDown = [g \in PtpQueries |-> <<>>]
    /\ ptpFetches = 0
    /\ ptpFailed = FALSE
    \* processInBatches: its arguments and the calls of processFn
    /\ maxWorkers = MaxWorkers
    /\ itemsIn = {}
    /\ fnCalls = [p \in localFilePaths |-> 0]
    /\ dirEmptyErr = FALSE
    \* filter evaluation: not under way
    /\ evalIgnores = <<>>
    /\ evalRemoves = <<>>
    /\ evalSeeds = [t \in Hashes |-> 0]
    /\ evalFree = 0
    /\ evalDecision = [t \in Hashes |-> "off"]
    /\ evalFreeAt = [t \in Hashes |-> 0]
    /\ evalRan = [t \in Hashes |-> [ign |-> 0, rem |-> 0]]
    \* relabel: not under way
    /\ relabelDecision = [h \in Hashes |-> "no"]
    /\ relabelUnique = [h \in Hashes |-> TRUE]
    /\ flagCrossSeeds = FALSE
    /\ relabelPc = "idle"
    /\ relabelLeft = {}
    /\ relabelOutcome = [h \in Hashes |-> "none"]
    /\ labelCalls = {}
    /\ relabelIgnored = 0
    /\ nonUniqueTorrents = 0
    /\ relabeledTorrents = 0
    /\ errorRelabelTorrents = 0
    \* a second clean run over the same snapshot: not under way
    /\ firstClean = <<>>
    /\ inodeStart = [p \in Paths |-> 0]
    \* the adapter's RemoveTorrent: not under way
    /\ adapterKind = "qbittorrent"
    /\ adapterLeft = {}
    /\ adapterHash = 0
    /\ adapterPc = "idle"
    /\ apiCalls = <<>>
    /\ adapterOutcome = [h \in Hashes |-> "none"]

SpecPtp == InitPtp /\ [][PtpNext]_vars

(***************************************************************************)
(* The filter as the phase-1 loop of removeEligibleTorrents evaluates it   *)
(* (pkg/expression, cmd/helpers.go).  A program is one compiled rule; the  *)
(* torrents here share no file, so each is unique, and                     *)
(* BypassIgnoreIfUnregistered is off.                                      *)
(***************************************************************************)

\* the programs a rule list is made of: Seeds < 1, FreeSpaceGB() < 1, and a
\* program whose run ends in an error
Programs == {"SeedsBelow", "FreeSpaceBelow", "Raises"}

IgnoreLists == {<<>>, <<"Raises">>, <<"SeedsBelow">>, <<"Raises", "SeedsBelow">>}
RemoveLists ==
    {<<>>} \cup {<<p>> : p \in Programs} \cup {<<p, q>> : p \in Programs, q \in Programs}

\* variant: every program reads the free space
RunReadsFreeSpace(program, t, free) ==
    CASE program = "SeedsBelow" -> [err |-> FALSE, val |-> evalSeeds[t] + free < 1]
      [] program = "FreeSpaceBelow" -> [err |-> FALSE, val |-> free < 1]
      [] OTHER -> [err |-> TRUE, val |-> FALSE]

\* expr.Run(expression.Program, env): env is the torrent with its closure
\* FreeSpaceGB, which returns the client's freeSpaceGB of that moment
Run(program, t, free) ==
    CASE program = "SeedsBelow" -> [err |-> FALSE, val |-> evalSeeds[t] < 1]
      [] program = "FreeSpaceBelow" -> [err |-> FALSE, val |-> free < 1]
      [] OTHER -> [err |-> TRUE, val |-> FALSE]

\* CheckTorrentSingleMatchWithReason from expression i on: the first error
\* ends the loop with the error, the first true with a match
RECURSIVE SingleMatchFrom(_, _, _, _)
SingleMatchFrom(expressions, i, t, free) ==
    IF i > Len(expressions) THEN [match |-> FALSE, err |-> FALSE, ran |-> i - 1]
    ELSE LET result == Run(expressions[i], t, free)
         IN IF result.err THEN [match |-> FALSE, err |-> TRUE, ran |-> i]
            ELSE IF result.val THEN [match |-> TRUE, err |-> FALSE, ran |-> i]
            ELSE SingleMatchFrom(expressions, i + 1, t, free)

CheckTorrentSingleMatchWithReason(t, expressions, free) ==
    SingleMatchFrom(expressions, 1, t, free)

\* c.ShouldIgnore and c.ShouldRemoveWithReason
ShouldIgnore(t, free) == CheckTorrentSingleMatchWithReason(t, evalIgnores, free)
ShouldRemoveWithReason(t, free) == CheckTorrentSingleMatchWithReason(t, evalRemoves, free)

\* one iteration of the phase-1 loop on a unique torrent: ShouldIgnore,
\* ShouldRemoveWithReason, removeTorrent with c.AddFreeSpace; "removed" is
\* the decision to remove, whatever the adapter then answers
EvalIterate(t) ==
    /\ evalDecision[t] = "pending"
    /\ LET ignore == ShouldIgnore(t, evalFree)
           remove == ShouldRemoveWithReason(t, evalFree)
           decision == IF ignore.err THEN "evalErr"
                       ELSE IF ignore.match THEN "ignored"
                       ELSE IF remove.err THEN "evalErr"
                       ELSE IF ~remove.match THEN "noMatch"
                       ELSE "removed"
       IN /\ evalDecision' = [evalDecision EXCEPT ![t] = decision]
          /\ evalRan' = [evalRan EXCEPT ![t] =
                            [ign |-> ignore.ran,
                             rem |-> IF ignore.err \/ ignore.match THEN 0 ELSE remove.ran]]
          \* c.AddFreeSpace after a removal with data that the adapter carried out
          /\ \E res \in (IF decision = "removed" /\ ~flagDryRun
                        THEN AdapterResults ELSE {"ok"}) :
                evalFree' = IF decision = "removed" /\ ~flagDryRun /\ res = "ok"
                            THEN evalFree + 1 ELSE evalFree
    /\ evalFreeAt' = [evalFreeAt EXCEPT ![t] = evalFree]
    /\ UNCHANGED <<evalIgnores, evalRemoves, evalSeeds>>
    /\ UNCHANGED notEval

EvalNext == \E t \in Hashes : EvalIterate(t)

InitEval ==
    /\ flagDryRun \in BOOLEAN
    \* clean: not under way
    /\ files = [h \in Hashes |-> {}]
    /\ downloaded = [h \in Hashes |-> TRUE]
    /\ freeSpaceSet = RefConfig.freeSpaceSet
    /\ deleteData = RefConfig.deleteData
    /\ bypassIgnore = RefConfig.bypassIgnore
    /\ mapHardlinks = RefConfig.mapHardlinks
    /\ inode = [p \in Paths |-> 0]
    /\ clientTorrents = {}
    /\ removeCalls = {}
    /\ pc = "idle"
    /\ torrents = {}
    /\ verdict = [h \in Hashes |-> "pending"]
    /\ reported = [h \in Hashes |-> [seen |-> FALSE, foi |-> TRUE, hli |-> TRUE]]
    /\ regState = [h \in Hashes |-> "Unknown"]
    /\ tfm = [p \in Paths |-> {}]
    /\ hfm = EmptyHfm
    /\ hardlinkedCandidates = {}
    /\ fileOverlapCandidates = {}
    /\ fields = {}
    /\ ignoredTorrents = 0
    /\ hardRemoveTorrents = 0
    /\ errorRemoveTorrents = 0
    /\ removedTorrentBytes = 0
    /\ removedCandidates = 0
    /\ freeSpaceAdded = 0
    \* IsUnregistered: not under way
    /\ TrackerStatus = <<>>
    /\ TrackerName = "ptp"
    /\ trackerApi = "none"
    /\ unregPc = "idle"
    /\ unregResult = FALSE
    /\ statusMatched = FALSE
    /\ apiQueried = FALSE
    \* retag: not under way
    /\ tagRules = <<>>
    /\ Tags = [h \in RetagTorrents |-> <<>>]
    /\ UpLimit = [h \in RetagTorrents |-> 0]
    /\ ruleMatch = [h \in RetagTorrents |-> <<>>]
    /\ retagPc = "idle"
    /\ retagPending = {}
    /\ tagCalls = {}
    /\ retagIgnored = 0
    /\ retaggedTorrents = 0
    /\ retagOutcome = [h \in RetagTorrents |-> "none"]
    /\ firstRun = <<>>
    /\ errorRetaggedTorrents = 0
    /\ retagFields = {}
    \* orphan: not under way
    /\ orphanTfm = {}
    /\ pathMapping = {}
    /\ IgnorePaths = {}
    /\ GracePeriod = 0
    /\ ModAge = [p \in localFilePaths |-> 0]
    /\ diskFiles = {}
    /\ diskDirs = {}
    /\ pathCache = {}
    /\ orphanPc = "idle"
    /\ items = {}
    /\ batchI = 0
    /\ batch = <<>>
    /\ workerSem = 0
    /\ wg = 0
    /\ worker = [p \in localFilePaths |-> "queued"]
    /\ removeFailures = 0
    /\ removedLocalFiles = 0
    /\ ignoredLocalFiles = 0
    /\ removedLocalFilesSize = 0
    /\ orphanFolderPaths = <<>>
    /\ ignoredLocalFolders = 0
    /\ removedLocalFolders = 0
    /\ reported = [h \in Hashes |-> [seen |-> FALSE, foi |-> TRUE, hli |-> TRUE]]
    /\ foiMap = <<>>
    /\ foiRemoved = {}
    /\ foiT = 1
    /\ foiPc = "idle"
    /\ foiBefore = <<>>
    \* the PTP plugin: not under way
    /\ ptpServer = [reply |-> "error", list |-> {}]
    /\ ptpHash = [g \in PtpQueries |-> "ab"]
    /\ ptpCache = {}
    /\ ptpFetched = FALSE
    /\ ptpApiError = FALSE
    /\ ptpMux = 0
    /\ ptpPc = [g \in PtpQueries |-> "off"]
    /\ ptpAnswer = [g \in PtpQueries |-> "none"]
    /\ ptpDown = [g \in PtpQueries |-> <<>>]
    /\ ptpFetches = 0
    /\ ptpFailed = FALSE
    \* processInBatches: its arguments and the calls of processFn
    /\ maxWorkers = MaxWorkers
    /\ itemsIn = {}
    /\ fnCalls = [p \in localFilePaths |-> 0]
    /\ dirEmptyErr = FALSE
    \* the filter, the snapshot and the free space the client reported
    /\ evalIgnores \in IgnoreLists
    /\ evalRemoves \in RemoveLists
    /\ evalSeeds \in [Hashes -> {0, 1}]
    /\ evalFree \in {0, 1}
    /\ evalDecision = [t \in Hashes |-> "pending"]
    /\ evalFreeAt = [t \in Hashes |-> 0]
    /\ evalRan = [t \in Hashes |-> [ign |-> 0, rem |-> 0]]
    \* relabel: not under way
    /\ relabelDecision = [h \in Hashes |-> "no"]
    /\ relabelUnique = [h \in Hashes |-> TRUE]
    /\ flagCrossSeeds = FALSE
    /\ relabelPc = "idle"
    /\ relabelLeft = {}
    /\ relabelOutcome = [h \in Hashes |-> "none"]
    /\ labelCalls = {}
    /\ relabelIgnored = 0
    /\ nonUniqueTorrents = 0
    /\ relabeledTorrents = 0
    /\ errorRelabelTorrents = 0
    \* a second clean run over the same snapshot: not under way
    /\ firstClean = <<>>
    /\ inodeStart = [p \in Paths |-> 0]
    \* the adapter's RemoveTorrent: not under way
    /\ adapterKind = "qbittorrent"
    /\ adapterLeft = {}
    /\ adapterHash = 0
    /\ adapterPc = "idle"
    /\ apiCalls = <<>>
    /\ adapterOutcome = [h \in Hashes |-> "none"]

SpecEval == InitEval /\ [][EvalNext]_vars

(***************************************************************************)
(* relabel: relabelEligibleTorrents (cmd/helpers.go)                       *)
(***************************************************************************)

\* c.ShouldRelabel: an error, no rule matched, the label the torrent has
\* already, or another label
RelabelDecisions == {"err", "no", "same", "label"}

\* log.Fatalf writes the entry and ends the process with os.Exit(1)
Fatalf == "exited"

\* one iteration of "for h, t := range torrents"
RelabelIterate(h) ==
    /\ relabelPc = "loop"
    /\ h \in relabelLeft
    /\ relabelLeft' = relabelLeft \ {h}
    /\ \E res \in (IF relabelDecision[h] = "label" /\ ~flagDryRun
                      /\ (relabelUnique[h] \/ flagCrossSeeds)
                   THEN {"ok", "err"} ELSE {"ok"}) :
       LET hardlink == ~relabelUnique[h]
           left(o) == [relabelOutcome EXCEPT ![h] = o]
       IN
       IF relabelDecision[h] = "err" THEN
           \* error while determining whether to relabel torrent
           /\ relabelOutcome' = left("evalErr")
           /\ UNCHANGED <<relabelPc, labelCalls, relabelIgnored, nonUniqueTorrents,
                          relabeledTorrents, errorRelabelTorrents>>
       ELSE IF relabelDecision[h] \in {"no", "same"} THEN
           /\ relabelOutcome' = left("ignored")
           /\ relabelIgnored' = relabelIgnored + 1
           /\ UNCHANGED <<relabelPc, labelCalls, nonUniqueTorrents,
                          relabeledTorrents, errorRelabelTorrents>>
       ELSE IF ~relabelUnique[h] /\ ~flagCrossSeeds THEN
           /\ relabelOutcome' = left("nonUnique")
           /\ nonUniqueTorrents' = nonUniqueTorrents + 1
           /\ UNCHANGED <<relabelPc, labelCalls, relabelIgnored,
                          relabeledTorrents, errorRelabelTorrents>>
       ELSE IF flagDryRun THEN
           /\ relabelOutcome' = left("dryRun")
           /\ relabeledTorrents' = relabeledTorrents + 1
           /\ UNCHANGED <<relabelPc, labelCalls, relabelIgnored, nonUniqueTorrents,
                          errorRelabelTorrents>>
       ELSE
           /\ labelCalls' = labelCalls \cup
                  {[hash |-> h, hardlink |-> hardlink, failed |-> (res = "err")]}
           /\ IF res = "err"
              THEN \* log.WithError(err).Fatalf: the two statements after it
                   \* (errorRelabelTorrents++, continue) are never reached
                   /\ relabelOutcome' = left("failed")
                   /\ relabelPc' = Fatalf
                   /\ UNCHANGED <<relabeledTorrents, errorRelabelTorrents>>
              ELSE /\ relabelOutcome' = left("relabeled")
                   /\ relabeledTorrents' = relabeledTorrents + 1
                   /\ UNCHANGED <<relabelPc, errorRelabelTorrents>>
           /\ UNCHANGED <<relabelIgnored, nonUniqueTorrents>>
    /\ UNCHANGED <<relabelDecision, relabelUnique, flagCrossSeeds>>
    /\ UNCHANGED notRelabel

\* the loop is over: the summary lines and the notification
RelabelSummary ==
    /\ relabelPc = "loop"
    /\ relabelLeft = {}
    /\ relabelPc' = "summary"
    /\ UNCHANGED <<relabelDecision, relabelUnique, flagCrossSeeds, relabelLeft,
                   relabelOutcome, labelCalls, relabelIgnored, nonUniqueTorrents,
                   relabeledTorrents, errorRelabelTorrents>>
    /\ UNCHANGED notRelabel

RelabelNext ==
    \/ \E h \in Hashes : RelabelIterate(h)
    \/ RelabelSummary

InitRelabel ==
    /\ flagDryRun \in BOOLEAN
    \* clean: not under way
    /\ files = [h \in Hashes |-> {}]
    /\ downloaded = [h \in Hashes |-> TRUE]
    /\ freeSpaceSet = RefConfig.freeSpaceSet
    /\ deleteData = RefConfig.deleteData
    /\ bypassIgnore = RefConfig.bypassIgnore
    /\ mapHardlinks = RefConfig.mapHardlinks
    /\ inode = [p \in Paths |-> 0]
    /\ clientTorrents = {}
    /\ removeCalls = {}
    /\ pc = "idle"
    /\ torrents = {}
    /\ verdict = [h \in Hashes |-> "pending"]
    /\ reported = [h \in Hashes |-> [seen |-> FALSE, foi |-> TRUE, hli |-> TRUE]]
    /\ regState = [h \in Hashes |-> "Unknown"]
    /\ tfm = [p \in Paths |-> {}]
    /\ hfm = EmptyHfm
    /\ hardlinkedCandidates = {}
    /\ fileOverlapCandidates = {}
    /\ fields = {}
    /\ ignoredTorrents = 0
    /\ hardRemoveTorrents = 0
    /\ errorRemoveTorrents = 0
    /\ removedTorrentBytes = 0
    /\ removedCandidates = 0
    /\ freeSpaceAdded = 0
    \* IsUnregistered: not under way
    /\ TrackerStatus = <<>>
    /\ TrackerName = "ptp"
    /\ trackerApi = "none"
    /\ unregPc = "idle"
    /\ unregResult = FALSE
    /\ statusMatched = FALSE
    /\ apiQueried = FALSE
    \* retag: not under way
    /\ tagRules = <<>>
    /\ Tags = [h \in RetagTorrents |-> <<>>]
    /\ UpLimit = [h \in RetagTorrents |-> 0]
    /\ ruleMatch = [h \in RetagTorrents |-> <<>>]
    /\ retagPc = "idle"
    /\ retagPending = {}
    /\ tagCalls = {}
    /\ retagIgnored = 0
    /\ retaggedTorrents = 0
    /\ retagOutcome = [h \in RetagTorrents |-> "none"]
    /\ firstRun = <<>>
    /\ errorRetaggedTorrents = 0
    /\ retagFields = {}
    \* orphan: not under way
    /\ orphanTfm = {}
    /\ pathMapping = {}
    /\ IgnorePaths = {}
    /\ GracePeriod = 0
    /\ ModAge = [p \in localFilePaths |-> 0]
    /\ diskFiles = {}
    /\ diskDirs = {}
    /\ pathCache = {}
    /\ orphanPc = "idle"
    /\ items = {}
    /\ batchI = 0
    /\ batch = <<>>
    /\ workerSem = 0
    /\ wg = 0
    /\ worker = [p \in localFilePaths |-> "queued"]
    /\ removeFailures = 0
    /\ removedLocalFiles = 0
    /\ ignoredLocalFiles = 0
    /\ removedLocalFilesSize = 0
    /\ orphanFolderPaths = <<>>
    /\ ignoredLocalFolders = 0
    /\ removedLocalFolders = 0
    /\ reported = [h \in Hashes |-> [seen |-> FALSE, foi |-> TRUE, hli |-> TRUE]]
    /\ foiMap = <<>>
    /\ foiRemoved = {}
    /\ foiT = 1
    /\ foiPc = "idle"
    /\ foiBefore = <<>>
    \* the PTP plugin: not under way
    /\ ptpServer = [reply |-> "error", list |-> {}]
    /\ ptpHash = [g \in PtpQueries |-> "ab"]
    /\ ptpCache = {}
    /\ ptpFetched = FALSE
    /\ ptpApiError = FALSE
    /\ ptpMux = 0
    /\ ptpPc = [g \in PtpQueries |-> "off"]
    /\ ptpAnswer = [g \in PtpQueries |-> "none"]
    /\ ptpDown = [g \in PtpQueries |-> <<>>]
    /\ ptpFetches = 0
    /\ ptpFailed = FALSE
    \* processInBatches: its arguments and the calls of processFn
    /\ maxWorkers = MaxWorkers
    /\ itemsIn = {}
    /\ fnCalls = [p \in localFilePaths |-> 0]
    /\ dirEmptyErr = FALSE
    \* filter evaluation: not under way
    /\ evalIgnores = <<>>
    /\ evalRemoves = <<>>
    /\ evalSeeds = [t \in Hashes |-> 0]
    /\ evalFree = 0
    /\ evalDecision = [t \in Hashes |-> "off"]
    /\ evalFreeAt = [t \in Hashes |-> 0]
    /\ evalRan = [t \in Hashes |-> [ign |-> 0, rem |-> 0]]
    \* relabel: the answers of the filter and of the index, and the flags
    /\ relabelDecision \in [Hashes -> RelabelDecisions]
    /\ relabelUnique \in [Hashes -> BOOLEAN]
    /\ flagCrossSeeds \in BOOLEAN
    /\ relabelPc = "loop"
    /\ relabelLeft = Hashes
    /\ relabelOutcome = [h \in Hashes |-> "none"]
    /\ labelCalls = {}
    /\ relabelIgnored = 0
    /\ nonUniqueTorrents = 0
    /\ relabeledTorrents = 0
    /\ errorRelabelTorrents = 0
    \* a second clean run over the same snapshot: not under way
    /\ firstClean = <<>>
    /\ inodeStart = [p \in Paths |-> 0]
    \* the adapter's RemoveTorrent: not under way
    /\ adapterKind = "qbittorrent"
    /\ adapterLeft = {}
    /\ adapterHash = 0
    /\ adapterPc = "idle"
    /\ apiCalls = <<>>
    /\ adapterOutcome = [h \in Hashes |-> "none"]

SpecRelabel == InitRelabel /\ [][RelabelNext]_vars

(***************************************************************************)
(* clean, run twice over the same snapshot: when the first run is over,    *)
(* the client, the disk and the indexes are put back as they were and the  *)
(* run starts again, free to range over its maps in another order.         *)
(***************************************************************************)
CleanRerun ==
    /\ CleanDone
    /\ firstClean = <<>>
    /\ firstClean' = <<[removeCalls |-> removeCalls, verdict |-> verdict,
                        regState |-> regState]>>
    /\ inode' = inodeStart
    /\ clientTorrents' = Hashes
    /\ removeCalls' = {}
    /\ pc' = "phase1"
    /\ torrents' = Hashes
    /\ verdict' = [h \in Hashes |-> "pending"]
    /\ reported' = [h \in Hashes |-> [seen |-> FALSE, foi |-> TRUE, hli |-> TRUE]]
    /\ regState' = [h \in Hashes |-> "Unknown"]
    /\ tfm' = TfmNew(Hashes, files)
    /\ hfm' = IF mapHardlinks THEN HfmNewFrom(EmptyHfm, inodeStart, Hashes) ELSE EmptyHfm
    /\ hardlinkedCandidates' = {}
    /\ fileOverlapCandidates' = {}
    /\ fields' = {}
    /\ ignoredTorrents' = 0
    /\ hardRemoveTorrents' = 0
    /\ errorRemoveTorrents' = 0
    /\ removedTorrentBytes' = 0
    /\ removedCandidates' = 0
    /\ freeSpaceAdded' = 0
    /\ UNCHANGED inodeStart
    /\ UNCHANGED notTwice

TwiceNext ==
    \/ CleanNext
    \/ CleanRerun

InitTwice ==
    \* clean in the reference configuration: the inputs and the state it starts from
    /\ files \in [Hashes -> SUBSET Paths \ {{}}]
    /\ downloaded = [h \in Hashes |-> TRUE]
    /\ freeSpaceSet = RefConfig.freeSpaceSet
    /\ flagDryRun = RefConfig.dryRun
    /\ deleteData = RefConfig.deleteData
    /\ bypassIgnore = RefConfig.bypassIgnore
    /\ mapHardlinks = RefConfig.mapHardlinks
    /\ inode \in DiskChoices
    /\ clientTorrents = Hashes
    /\ removeCalls = {}
    /\ pc = "phase1"
    /\ torrents = Hashes
    /\ verdict = [h \in Hashes |-> "pending"]
    /\ reported = [h \in Hashes |-> [seen |-> FALSE, foi |-> TRUE, hli |-> TRUE]]
    /\ regState = [h \in Hashes |-> "Unknown"]
    /\ tfm = TfmNew(Hashes, files)
    /\ hfm = IF mapHardlinks THEN HfmNewFrom(EmptyHfm, inode, Hashes) ELSE EmptyHfm
    /\ hardlinkedCandidates = {}
    /\ fileOverlapCandidates = {}
    /\ fields = {}
    /\ ignoredTorrents = 0
    /\ hardRemoveTorrents = 0
    /\ errorRemoveTorrents = 0
    /\ removedTorrentBytes = 0
    /\ removedCandidates = 0
    /\ freeSpaceAdded = 0
    \* IsUnregistered: not under way
    /\ TrackerStatus = <<>>
    /\ TrackerName = "ptp"
    /\ trackerApi = "none"
    /\ unregPc = "idle"
    /\ unregResult = FALSE
    /\ statusMatched = FALSE
    /\ apiQueried = FALSE
    \* retag: not under way
    /\ tagRules = <<>>
    /\ Tags = [h \in RetagTorrents |-> <<>>]
    /\ UpLimit = [h \in RetagTorrents |-> 0]
    /\ ruleMatch = [h \in RetagTorrents |-> <<>>]
    /\ retagPc = "idle"
    /\ retagPending = {}
    /\ tagCalls = {}
    /\ retagIgnored = 0
    /\ retaggedTorrents = 0
    /\ retagOutcome = [h \in RetagTorrents |-> "none"]
    /\ firstRun = <<>>
    /\ errorRetaggedTorrents = 0
    /\ retagFields = {}
    \* orphan: not under way
    /\ orphanTfm = {}
    /\ pathMapping = {}
    /\ IgnorePaths = {}
    /\ GracePeriod = 0
    /\ ModAge = [p \in localFilePaths |-> 0]
    /\ diskFiles = {}
    /\ diskDirs = {}
    /\ pathCache = {}
    /\ orphanPc = "idle"
    /\ items = {}
    /\ batchI = 0
    /\ batch = <<>>
    /\ workerSem = 0
    /\ wg = 0
    /\ worker = [p \in localFilePaths |-> "queued"]
    /\ removeFailures = 0
    /\ removedLocalFiles = 0
    /\ ignoredLocalFiles = 0
    /\ removedLocalFilesSize = 0
    /\ orphanFolderPaths = <<>>
    /\ ignoredLocalFolders = 0
    /\ removedLocalFolders = 0
    \* the file-overlap index on its own: not under way
    /\ foiMap = <<>>
    /\ foiRemoved = {}
    /\ foiT = 1
    /\ foiPc = "idle"
    /\ foiBefore = <<>>
    \* the PTP plugin: not under way
    /\ ptpServer = [reply |-> "error", list |-> {}]
    /\ ptpHash = [g \in PtpQueries |-> "ab"]
    /\ ptpCache = {}
    /\ ptpFetched = FALSE
    /\ ptpApiError = FALSE
    /\ ptpMux = 0
    /\ ptpPc = [g \in PtpQueries |-> "off"]
    /\ ptpAnswer = [g \in PtpQueries |-> "none"]
    /\ ptpDown = [g \in PtpQueries |-> <<>>]
    /\ ptpFetches = 0
    /\ ptpFailed = FALSE
    \* processInBatches: its arguments and the calls of processFn
    /\ maxWorkers = MaxWorkers
    /\ itemsIn = {}
    /\ fnCalls = [p \in localFilePaths |-> 0]
    /\ dirEmptyErr = FALSE
    \* filter evaluation: not under way
    /\ evalIgnores = <<>>
    /\ evalRemoves = <<>>
    /\ evalSeeds = [t \in Hashes |-> 0]
    /\ evalFree = 0
    /\ evalDecision = [t \in Hashes |-> "off"]
    /\ evalFreeAt = [t \in Hashes |-> 0]
    /\ evalRan = [t \in Hashes |-> [ign |-> 0, rem |-> 0]]
    \* relabel: not under way
    /\ relabelDecision = [h \in Hashes |-> "no"]
    /\ relabelUnique = [h \in Hashes |-> TRUE]
    /\ flagCrossSeeds = FALSE
    /\ relabelPc = "idle"
    /\ relabelLeft = {}
    /\ relabelOutcome = [h \in Hashes |-> "none"]
    /\ labelCalls = {}
    /\ relabelIgnored = 0
    /\ nonUniqueTorrents = 0
    /\ relabeledTorrents = 0
    /\ errorRelabelTorrents = 0
    \* the first of two clean runs over the same snapshot
    /\ firstClean = <<>>
    /\ inodeStart = inode
    \* the adapter's RemoveTorrent: not under way
    /\ adapterKind = "qbittorrent"
    /\ adapterLeft = {}
    /\ adapterHash = 0
    /\ adapterPc = "idle"
    /\ apiCalls = <<>>
    /\ adapterOutcome = [h \in Hashes |-> "none"]

SpecTwice == InitTwice /\ [][TwiceNext]_vars

(***************************************************************************)
(* The adapter's RemoveTorrent (pkg/client): qBittorrent and Deluge.  The  *)
(* sleeps between the calls take time and change nothing.                  *)
(***************************************************************************)
AdapterKinds == {"qbittorrent", "deluge"}

\* a call on the client library
AdapterCall(op, h) == [op |-> op, hash |-> h]

\* what the client library may answer to a call
AdapterAnswers(op) ==
    IF op = "delete" /\ adapterKind = "deluge" THEN {"ok", "err", "notOk"}
    ELSE {"ok", "err"}

\* RemoveTorrent makes the call op for the torrent it works on; an answer
\* other than ok ends it with (false, err), else it goes on with next
AdapterIssue(op, next) ==
    /\ apiCalls' = Append(apiCalls, AdapterCall(op, adapterHash))
    /\ \E res \in AdapterAnswers(op) :
          IF res # "ok"
          THEN /\ adapterOutcome' = [adapterOutcome EXCEPT ![adapterHash] = "failed"]
               /\ adapterPc' = "idle"
               /\ adapterHash' = 0
          ELSE IF next = "idle"
          THEN /\ adapterOutcome' = [adapterOutcome EXCEPT ![adapterHash] = "removed"]
               /\ adapterPc' = "idle"
               /\ adapterHash' = 0
          ELSE /\ adapterPc' = next
               /\ UNCHANGED <<adapterHash, adapterOutcome>>
    /\ UNCHANGED <<adapterKind, adapterLeft>>
    /\ UNCHANGED notAdapter

\* the removeTorrent closure comes to "if !flagDryRun" for torrent h
AdapterBegin(h) ==
    /\ adapterPc = "idle"
    /\ h \in adapterLeft
    /\ adapterLeft' = adapterLeft \ {h}
    /\ IF flagDryRun
       THEN /\ adapterOutcome' = [adapterOutcome EXCEPT ![h] = "dryRun"]
            /\ UNCHANGED <<adapterHash, adapterPc>>
       ELSE /\ adapterHash' = h
            /\ adapterPc' = "pause"
            /\ UNCHANGED adapterOutcome
    /\ UNCHANGED <<adapterKind, apiCalls>>
    /\ UNCHANGED notAdapter

\* variant: the torrent is deleted as soon as it is paused
AdapterPauseThenDelete ==
    /\ adapterPc = "pause"
    /\ AdapterIssue("pause", "delete")

\* pause torrent
AdapterPause ==
    /\ adapterPc = "pause"
    /\ AdapterIssue("pause", "resume")

\* resume torrent
AdapterResume ==
    /\ adapterPc = "resume"
    /\ AdapterIssue("resume", "reannounce")

\* re-announce torrent
AdapterReannounce ==
    /\ adapterPc = "reannounce"
    /\ AdapterIssue("reannounce", "delete")

\* remove
AdapterDelete ==
    /\ adapterPc = "delete"
    /\ AdapterIssue("delete", "idle")

AdapterNext ==
    \/ \E h \in Hashes : AdapterBegin(h)
    \/ AdapterPause
    \/ AdapterResume
    \/ AdapterReannounce
    \/ AdapterDelete

\* removals through either adapter, dry or not
InitAdapter ==
    /\ flagDryRun \in BOOLEAN
    \* clean: not under way
    /\ files = [h \in Hashes |-> {}]
    /\ downloaded = [h \in Hashes |-> TRUE]
    /\ freeSpaceSet = RefConfig.freeSpaceSet
    /\ deleteData = RefConfig.deleteData
    /\ bypassIgnore = RefConfig.bypassIgnore
    /\ mapHardlinks = RefConfig.mapHardlinks
    /\ inode = [p \in Paths |-> 0]
    /\ clientTorrents = {}
    /\ removeCalls = {}
    /\ pc = "idle"
    /\ torrents = {}
    /\ verdict = [h \in Hashes |-> "pending"]
    /\ reported = [h \in Hashes |-> [seen |-> FALSE, foi |-> TRUE, hli |-> TRUE]]
    /\ regState = [h \in Hashes |-> "Unknown"]
    /\ tfm = [p \in Paths |-> {}]
    /\ hfm = EmptyHfm
    /\ hardlinkedCandidates = {}
    /\ fileOverlapCandidates = {}
    /\ fields = {}
    /\ ignoredTorrents = 0
    /\ hardRemoveTorrents = 0
    /\ errorRemoveTorrents = 0
    /\ removedTorrentBytes = 0
    /\ removedCandidates = 0
    /\ freeSpaceAdded = 0
    \* IsUnregistered: not under way
    /\ TrackerStatus = <<>>
    /\ TrackerName = "ptp"
    /\ trackerApi = "none"
    /\ unregPc = "idle"
    /\ unregResult = FALSE
    /\ statusMatched = FALSE
    /\ apiQueried = FALSE
    \* retag: not under way
    /\ tagRules = <<>>
    /\ Tags = [h \in RetagTorrents |-> <<>>]
    /\ UpLimit = [h \in RetagTorrents |-> 0]
    /\ ruleMatch = [h \in RetagTorrents |-> <<>>]
    /\ retagPc = "idle"
    /\ retagPending = {}
    /\ tagCalls = {}
    /\ retagIgnored = 0
    /\ retaggedTorrents = 0
    /\ retagOutcome = [h \in RetagTorrents |-> "none"]
    /\ firstRun = <<>>
    /\ errorRetaggedTorrents = 0
    /\ retagFields = {}
    \* orphan: not under way
    /\ orphanTfm = {}
    /\ pathMapping = {}
    /\ IgnorePaths = {}
    /\ GracePeriod = 0
    /\ ModAge = [p \in localFilePaths |-> 0]
    /\ diskFiles = {}
    /\ diskDirs = {}
    /\ pathCache = {}
    /\ orphanPc = "idle"
    /\ items = {}
    /\ batchI = 0
    /\ batch = <<>>
    /\ workerSem = 0
    /\ wg = 0
    /\ worker = [p \in localFilePaths |-> "queued"]
    /\ removeFailures = 0
    /\ removedLocalFiles = 0
    /\ ignoredLocalFiles = 0
    /\ removedLocalFilesSize = 0
    /\ orphanFolderPaths = <<>>
    /\ ignoredLocalFolders = 0
    /\ removedLocalFolders = 0
    /\ reported = [h \in Hashes |-> [seen |-> FALSE, foi |-> TRUE, hli |-> TRUE]]
    /\ foiMap = <<>>
    /\ foiRemoved = {}
    /\ foiT = 1
    /\ foiPc = "idle"
    /\ foiBefore = <<>>
    \* the PTP plugin: not under way
    /\ ptpServer = [reply |-> "error", list |-> {}]
    /\ ptpHash = [g \in PtpQueries |-> "ab"]
    /\ ptpCache = {}
    /\ ptpFetched = FALSE
    /\ ptpApiError = FALSE
    /\ ptpMux = 0
    /\ ptpPc = [g \in PtpQueries |-> "off"]
    /\ ptpAnswer = [g \in PtpQueries |-> "none"]
    /\ ptpDown = [g \in PtpQueries |-> <<>>]
    /\ ptpFetches = 0
    /\ ptpFailed = FALSE
    \* processInBatches: its arguments and the calls of processFn
    /\ maxWorkers = MaxWorkers
    /\ itemsIn = {}
    /\ fnCalls = [p \in localFilePaths |-> 0]
    /\ dirEmptyErr = FALSE
    \* filter evaluation: not under way
    /\ evalIgnores = <<>>
    /\ evalRemoves = <<>>
    /\ evalSeeds = [t \in Hashes |-> 0]
    /\ evalFree = 0
    /\ evalDecision = [t \in Hashes |-> "off"]
    /\ evalFreeAt = [t \in Hashes |-> 0]
    /\ evalRan = [t \in Hashes |-> [ign |-> 0, rem |-> 0]]
    \* relabel: not under way
    /\ relabelDecision = [h \in Hashes |-> "no"]
    /\ relabelUnique = [h \in Hashes |-> TRUE]
    /\ flagCrossSeeds = FALSE
    /\ relabelPc = "idle"
    /\ relabelLeft = {}
    /\ relabelOutcome = [h \in Hashes |-> "none"]
    /\ labelCalls = {}
    /\ relabelIgnored = 0
    /\ nonUniqueTorrents = 0
    /\ relabeledTorrents = 0
    /\ errorRelabelTorrents = 0
    \* a second clean run over the same snapshot: not under way
    /\ firstClean = <<>>
    /\ inodeStart = [p \in Paths |-> 0]
    \* the adapter's RemoveTorrent: the client in use, the torrents to remove
    /\ adapterKind \in AdapterKinds
    /\ adapterLeft = Hashes
    /\ adapterHash = 0
    /\ adapterPc = "idle"
    /\ apiCalls = <<>>
    /\ adapterOutcome = [h \in Hashes |-> "none"]

SpecAdapter == InitAdapter /\ [][AdapterNext]_vars

(***************************************************************************)
(* Properties of clean                                                     *)
(***************************************************************************)
Candidates == hardlinkedCandidates \cup fileOverlapCandidates

CallsFor(h) == {c \in removeCalls : c.hash = h}

NonUniqueRegistered(h) ==
    /\ reported[h].seen
    /\ ~(reported[h].foi /\ reported[h].hli)
    /\ regState[h] = "Registered"

\* C1: clean never issues a removal with deleteData=true for a torrent while
\* another torrent still present in the client declares one of its paths.
C1_NoDataDeleteWhileShared ==
    \A c \in removeCalls : c.deleteData => ~c.shared

\* C2: a torrent that FOI or HLI reports non-unique and that is not
\* unregistered is never handed to the adapter in phase 1; it is queued in one
\* of the two candidate buckets and any removal of it is a phase-2 removal.
C2_NonUniqueRegisteredOnlyQueued ==
    \A h \in Hashes :
        NonUniqueRegistered(h) =>
            /\ h \in Candidates
            /\ verdict[h] \in {"candidate", "stillNotUnique", "removedCandidate"}
            /\ \A c \in CallsFor(h) : c.phase = 2
            /\ (pc = "phase1" => h \in torrents /\ h \in clientTorrents /\ h \notin fields)

C2_Witness ==
    \E h \in Hashes :
        /\ NonUniqueRegistered(h)
        /\ pc = "phase1"
        /\ verdict[h] = "candidate"
        /\ \E o \in Hashes \ {h} : verdict[o] \in {"removedUnique", "removedUnregistered"}

\* C3 as stated: every torrent removed in phase 1 is reported unique by FOI
\* and by HLI at the moment its removal is issued.
C3_Phase1OnlyUnique ==
    \A c \in removeCalls : c.phase = 1 => (c.foiUnique /\ c.hliUnique)

\* C3 amended: every torrent removed in phase 1 is either reported unique by
\* FOI and by HLI at the moment its removal is issued, or is unregistered.
C3_Phase1UniqueOrUnregistered ==
    \A c \in removeCalls :
        c.phase = 1 => ((c.foiUnique /\ c.hliUnique) \/ c.unregistered)

C3_Witness ==
    /\ \E c \in removeCalls : c.phase = 1 /\ c.removed /\ c.foiUnique /\ c.hliUnique
    /\ \E c \in removeCalls : c.phase = 1 /\ c.removed /\ ~c.foiUnique /\ c.unregistered

\* the run is the one the scenarios describe: not a dry run, and the adapter
\* carried out every removal it was asked for
PlainRun == ~flagDryRun /\ \A c \in removeCalls : c.removed

\* a and b are the only torrents that declare a path of a or of b
OnlyDeclarers(a, b) ==
    \A o \in Hashes \ {a, b} : files[o] \cap (files[a] \cup files[b]) = {}

\* S1: a and b share a declared path whose files are all on disk, Remove
\* matched both and neither is unregistered
S1(a, b) ==
    /\ a # b
    /\ files[a] \cap files[b] # {}
    /\ OnlyDeclarers(a, b)
    /\ \A f \in files[a] \cup files[b] : inode[f] # 0
    /\ \A h \in {a, b} : reported[h].seen /\ regState[h] = "Registered"

\* S1 as pure overlap: the hardlink index reports both torrents unique
S1Pure(a, b) ==
    /\ a # b
    /\ files[a] \cap files[b] # {}
    /\ OnlyDeclarers(a, b)
    /\ \A h \in {a, b} : /\ reported[h].seen
                         /\ reported[h].hli
                         /\ regState[h] = "Registered"

\* what scenario S1 promises for the pair a, b
S1Outcome(a, b) ==
    /\ {a, b} \subseteq fileOverlapCandidates
    /\ {a, b} \cap hardlinkedCandidates = {}
    /\ \A c \in CallsFor(a) \cup CallsFor(b) :
           c.phase = 2 /\ ~c.deleteData /\ ~c.addFreeSpace
    /\ pc = "phase2" =>
           \A h \in {a, b} :
               verdict[h] = "candidate" =>
                   TfmNoInstances(tfm, h) /\ HfmNoInstances(hfm, inode, h)
    /\ CleanDone =>
           /\ \A h \in {a, b} : /\ verdict[h] = "removedCandidate"
                                /\ CallsFor(h) # {}
                                /\ h \notin clientTorrents
                                /\ h \in fields
           /\ removedTorrentBytes = SumBytes(fields)
           /\ \A p \in files[a] \cup files[b] : tfm[p] = {}

\* C8 (scenario S1): two torrents that share a declared path, both matched by
\* Remove and neither unregistered, are both queued as file-overlap
\* candidates; once the candidates are processed both have been removed with
\* deleteData=false, their DownloadedBytes are in the removed-bytes total and
\* nothing was credited to the free-space accountant for them.
C8_FileOverlapPairRemovedKeepingData ==
    \A a, b \in Hashes : (S1(a, b) /\ PlainRun) => S1Outcome(a, b)

\* the failing case of C8: a path of the pair is also a hardlink, the pair
\* is queued as hardlinked and one of them is removed together with its data
C8_HardlinkedOverlapCase ==
    \E a, b \in Hashes :
        /\ a # b /\ files[a] \cap files[b] # {}
        /\ \A h \in {a, b} : reported[h].seen /\ ~reported[h].foi /\ ~reported[h].hli
        /\ {a, b} \subseteq hardlinkedCandidates
        /\ \E c \in CallsFor(a) : c.phase = 2 /\ c.deleteData /\ c.removed
        /\ b \in clientTorrents /\ CleanDone

\* scenario S1 restricted to pure overlap: what C8 promises holds for a pair
\* that the hardlink index reports unique
S1_PureOverlapPairRemovedKeepingData ==
    \A a, b \in Hashes : (S1Pure(a, b) /\ PlainRun) => S1Outcome(a, b)

S1_PureOverlapWitness ==
    /\ S1Pure(1, 2) /\ PlainRun /\ CleanDone
    /\ deleteData /\ freeSpaceSet
    /\ \A h \in {1, 2} : downloaded[h] /\ verdict[h] = "removedCandidate"
    /\ removedTorrentBytes = DownloadedBytes(1) + DownloadedBytes(2)
    /\ freeSpaceAdded = 0

\* S2: a file of a and a file of b are distinct paths with one inode, both
\* torrents are indexed, Remove matched a and not b, a is not unregistered
S2(a, b) ==
    /\ a # b
    /\ mapHardlinks /\ downloaded[a] /\ downloaded[b]
    /\ files[a] \cap files[b] = {}
    /\ OnlyDeclarers(a, b)
    /\ \E f \in files[a], g \in files[b] : inode[f] # 0 /\ inode[f] = inode[g]
    /\ reported[a].seen /\ regState[a] = "Registered"
    /\ verdict[b] = "noMatch"

\* C9 (scenario S2): a torrent hardlinked to a torrent that Remove does not
\* match is queued as a hardlinked candidate and is not removed: after the
\* virtual removal HLI.NoInstances is still false for it.
C9_HardlinkedToKeptTorrentStays ==
    \A a, b \in Hashes :
        S2(a, b) =>
            /\ a \in hardlinkedCandidates
            /\ a \notin fileOverlapCandidates
            /\ CallsFor(a) = {}
            /\ a \in clientTorrents /\ a \notin fields
            /\ pc = "phase2" => ~HfmNoInstances(hfm, inode, a)
            /\ CleanDone => verdict[a] = "stillNotUnique"

C9_Witness ==
    /\ S2(1, 2) /\ CleanDone /\ ~flagDryRun
    /\ verdict[1] = "stillNotUnique"
    /\ reported[1].foi /\ ~reported[1].hli

\* S3: Remove matched h, only the hardlink index reports it non-unique, and
\* it is unregistered
S3(h) ==
    /\ reported[h].seen
    /\ reported[h].foi /\ ~reported[h].hli
    /\ regState[h] = "Unregistered"

\* C10 (scenario S3): an unregistered torrent that is non-unique only through
\* a hardlink is removed in phase 1 without being queued, with the filter's
\* DeleteData setting (true unless configured otherwise).
C10_UnregisteredHardlinkedRemovedAtOnce ==
    \A h \in Hashes :
        S3(h) =>
            /\ h \notin Candidates
            /\ verdict[h] = "removedUnregistered"
            /\ h \notin torrents
            /\ ~flagDryRun =>
                   /\ \E c \in CallsFor(h) : TRUE
                   /\ \A c \in CallsFor(h) :
                          /\ c.phase = 1
                          /\ c.deleteData = deleteData
                          /\ c.removed => h \notin clientTorrents

C10_Witness ==
    \E h \in Hashes :
        /\ S3(h) /\ ~flagDryRun /\ deleteData
        /\ \E c \in CallsFor(h) : c.phase = 1 /\ c.deleteData /\ c.removed
        /\ \E o \in Hashes \ {h} : o \in clientTorrents

RetagScheduled ==
    {h \in RetagTorrents \ retagPending :
        LET i == ShouldRetag(h)
        IN i.Add # {} \/ i.Remove # {} \/ i.UploadKb # <<>>}

\* C5: with dry-run enabled no write call reaches the client adapter, while
\* the counter and the notification fields still count the torrents that
\* would have been retagged.
C5_DryRunWritesNothing ==
    flagDryRun =>
        /\ tagCalls = {}
        /\ retagFields \subseteq RetagScheduled
        /\ retaggedTorrents = Cardinality(retagFields)

\* C11: a rule with UploadKb = -1 compares equal to a torrent whose upload
\* limit is already unlimited, so no change to -1 is ever handed to the adapter
\* for a torrent whose UpLimit is -1; and a scheduled change to -1 reaches the
\* adapter as -1.
C11_UnlimitedNeverRewritten ==
    \A c \in tagCalls :
        (c.op = "SetUploadLimit" /\ c.kb = -1) => (c.was # -1 /\ c.limit = -1)

\* the second half of C11 alone: a scheduled change to -1 reaches the adapter
\* as -1, every other change as KiB/s times 1024
C11_UnlimitedHandedOverAsUnlimited ==
    \A c \in tagCalls :
        c.op = "SetUploadLimit" =>
            c.limit = (IF c.kb = -1 THEN -1 ELSE c.kb * 1024)

\* the first run did for h what it had scheduled, or had nothing to do
FirstRunApplied(h) ==
    /\ firstRun # <<>>
    /\ firstRun[1].outcome[h] \in {"applied", "ignored"}

\* the rules of Mode=full whose Update conditions torrent h satisfies
FullMatched(h) ==
    {i \in DOMAIN tagRules : tagRules[i].Mode = "full" /\ ruleMatch[h][i]}

\* C13: for a torrent that satisfies the conditions of a Mode=full rule, a
\* second retag run on the state the first run produced schedules no tag add
\* and no tag remove, and the torrent's tag set stays what the first run left.
C13_SecondRunSchedulesNoTagChange ==
    \A h \in RetagTorrents :
        (FirstRunApplied(h) /\ FullMatched(h) # {}) =>
            /\ ShouldRetag(h).Add = {}
            /\ ShouldRetag(h).Remove = {}
            /\ \A i \in FullMatched(h) : StringSliceContains(Tags[h], tagRules[i].Name)
            /\ Range(Tags[h]) = Range(firstRun[1].Tags[h])
            /\ \A c \in tagCalls :
                   c.hash = h =>
                       /\ c.op \notin {"AddTags", "RemoveTags"}
                       /\ c.op = "SetTags" => c.tags = Range(firstRun[1].Tags[h])

C13_Witness ==
    \E h \in RetagTorrents :
        /\ ~flagDryRun
        /\ FirstRunApplied(h) /\ firstRun[1].outcome[h] = "applied"
        /\ FullMatched(h) # {}
        /\ retagOutcome[h] = "ignored"
        /\ RetagDone

(***************************************************************************)
(* Properties of orphan                                                    *)
(***************************************************************************)
\* FOI.HasPath(p, mapping) is true
TrackedPath(p) ==
    IF pathMapping = {} THEN hasPathDirect(orphanTfm, p)
    ELSE hasPathWithMapping(orphanTfm, p, pathMapping)

WorkersWith(outcome) == {q \in localFilePaths : worker[q] = outcome}

\* C6: under every interleaving of the file workers, no file and no directory
\* for which FOI.HasPath holds is deleted, nor does a worker get as far as the
\* removal of such a file.
C6_TrackedPathNeverDeleted ==
    /\ \A p \in localFilePaths :
           TrackedPath(p) =>
               /\ p \in diskFiles
               /\ worker[p] \in {"queued", "check", "tracked"}
    /\ \A d \in localFolderPaths :
           TrackedPath(d) =>
               /\ d \in diskDirs
               /\ \A i \in DOMAIN orphanFolderPaths : orphanFolderPaths[i] # d

C6_Witness ==
    /\ OrphanDone /\ ~flagDryRun
    /\ \E p \in localFilePaths : TrackedPath(p) /\ worker[p] = "tracked"
    /\ \E q \in localFilePaths : q \notin diskFiles
    /\ TrackedPath(DirS) /\ DirS \in diskDirs
    /\ DirUV \notin diskDirs

\* C7: a file whose age is below the grace period is never deleted: its
\* worker skips it before the removal, and the removal counters count only
\* the other files.
C7_FileWithinGraceKept ==
    \A p \in localFilePaths :
        ModAge[p] < gracePeriod =>
            /\ p \in diskFiles
            /\ worker[p] \notin {"remove", "removed", "removeFailed"}
            /\ removedLocalFiles = Cardinality(WorkersWith("removed") \ {p})
            /\ removedLocalFilesSize =
                   (IF FileA \in WorkersWith("removed") \ {p} THEN FileSize(FileA) ELSE 0)
                   + (IF FileAB \in WorkersWith("removed") \ {p} THEN FileSize(FileAB) ELSE 0)
                   + (IF FileSB \in WorkersWith("removed") \ {p} THEN FileSize(FileSB) ELSE 0)
            /\ orphanPc \in {"range", "spawn", "wait"} =>
                   removeFailures = Cardinality(WorkersWith("removeFailed") \ {p})

C7_Witness ==
    /\ OrphanDone /\ ~flagDryRun
    /\ GracePeriod = 0
    /\ \E p \in localFilePaths : ModAge[p] < gracePeriod /\ worker[p] = "grace"
    /\ \E q \in localFilePaths : worker[q] = "removed" /\ q \notin diskFiles

\* C12: with a configured grace period of 0 the modification-time check is
\* disabled: no file that FOI does not claim and that is not ignored is
\* skipped for being recently modified, and once its worker has finished
\* without a stat or removal failure the file is gone.
C12_ZeroGraceDisablesCheck ==
    GracePeriod = 0 =>
        \A p \in localFilePaths :
            /\ worker[p] # "grace"
            /\ (~flagDryRun /\ worker[p] \notin {"queued", "check", "stat", "remove",
                                                 "tracked", "ignored", "statErr",
                                                 "removeFailed"})
                   => p \notin diskFiles

(***************************************************************************)
(* Properties of the file-overlap index                                    *)
(***************************************************************************)
\* the torrent handed to Add is under none of its declared paths
FoiUnregistered ==
    \A p \in files[foiT] : p \in DOMAIN foiBefore => foiT \notin foiBefore[p]

\* C14 as stated: for any state of the index and any torrent, Add followed
\* by Remove leaves the index equal to its state before the Add.
C14_AddRemoveRestores ==
    foiPc = "removed" => foiMap = foiBefore

\* C14 amended: for any state of the index and any torrent that the index
\* does not hold under any of its declared paths, Add followed by Remove
\* leaves the index equal to its state before the Add.
C14_AddRemoveRestoresUnregistered ==
    (foiPc = "removed" /\ FoiUnregistered) => foiMap = foiBefore

C14_Witness ==
    /\ foiPc = "removed" /\ FoiUnregistered
    /\ \E p \in files[foiT] : p \in DOMAIN foiBefore
    /\ \E p \in files[foiT] : p \notin DOMAIN foiBefore
    /\ foiMap = foiBefore


(***************************************************************************)
(* Properties of the PTP plugin                                            *)
(***************************************************************************)

\* C15: once the fetch of the unregistered list has failed, the query that
\* tried it and every query after it is answered false, the endpoint is not
\* asked a second time, and every IsTrackerDown asked from then on is
\* answered true.
C15_FailedFetchNeverRetried ==
    ptpFailed =>
        /\ \A g \in PtpQueries : ptpAnswer[g] # "true"
        /\ \A g \in PtpQueries : ptpPc[g] = "returned" => ptpAnswer[g] = "false"
        /\ ptpFetches = 1
        /\ \A g \in PtpQueries :
               (ptpDown[g] # <<>> /\ ptpDown[g][1].failed) => ptpDown[g][1].down

\* a run where the fetch failed, every query has returned and one of them
\* asked IsTrackerDown after the failure
C15_Witness ==
    /\ ptpFailed
    /\ \A g \in PtpQueries : ptpPc[g] = "returned" /\ ptpAnswer[g] = "false"
    /\ \E g \in PtpQueries : ptpDown[g] # <<>> /\ ptpDown[g][1].failed /\ ptpDown[g][1].down


(***************************************************************************)
(* Properties of processInBatches                                          *)
(***************************************************************************)

\* every goroutine started by processInBatches has been started and the
\* range over the map is over
BatchesDispatched == orphanPc \in {"wait", "folders"}

\* C16: processInBatches starts processFn exactly once for every key of the
\* map handed in and for no other key, whether the map is empty, smaller
\* than a batch, as large as a batch or larger, and for every pool size.
C16_EachItemProcessedOnce ==
    /\ \A p \in localFilePaths : fnCalls[p] <= 1 /\ (fnCalls[p] > 0 => p \in itemsIn)
    /\ BatchesDispatched => \A p \in itemsIn : fnCalls[p] = 1

\* a map larger than a batch has been dispatched through a pool of one worker
C16_Witness ==
    /\ BatchesDispatched
    /\ Cardinality(itemsIn) > BatchSize
    /\ maxWorkers = 1
    /\ \A p \in itemsIn : fnCalls[p] = 1


(***************************************************************************)
(* Properties of the folder loop                                           *)
(***************************************************************************)

\* q lies below the directory d
Below(q, d) == HasPrefix(q, d \o <<"/">>)

\* c is a directory nested in the directory b, b holds nothing but c, and
\* neither of them is claimed by the index or ignored
NestedOrphans(b, c) ==
    /\ b \in localFolderPaths /\ c \in localFolderPaths
    /\ Below(c, b)
    /\ \A q \in localFilePaths \cup localFolderPaths : Below(q, b) => q = c
    /\ ~TrackedPath(b) /\ ~TrackedPath(c)
    /\ ~isIgnoredPath(b, IgnorePaths) /\ ~isIgnoredPath(c, IgnorePaths)

\* C17: orphan directories are taken children before parents.  For an empty
\* orphan directory c nested in an orphan directory b that holds nothing
\* else, in a run that is not dry: b is never removed while c is there; when
\* the folder loop is over and nothing has failed, c and b are both gone;
\* and an ancestor of b that holds a tracked file is still there.
C17_ChildrenBeforeParents ==
    \A b, c \in localFolderPaths :
        (NestedOrphans(b, c) /\ ~flagDryRun) =>
            /\ b \notin diskDirs => c \notin diskDirs
            /\ (OrphanDone /\ removeFailures = 0 /\ ~dirEmptyErr) =>
                   (c \notin diskDirs /\ b \notin diskDirs)
            /\ \A a \in localFolderPaths :
                   (/\ Below(b, a)
                    /\ \E f \in localFilePaths : Below(f, a) /\ TrackedPath(f))
                       => a \in diskDirs

\* /d/s/u/v and /d/s/u have been removed, /d/s with its tracked file is left
C17_Witness ==
    /\ OrphanDone /\ ~flagDryRun
    /\ NestedOrphans(DirU, DirUV)
    /\ DirUV \notin diskDirs /\ DirU \notin diskDirs
    /\ TrackedPath(FileSB) /\ FileSB \in diskFiles
    /\ DirS \in diskDirs


(***************************************************************************)
(* Properties of filter evaluation                                         *)
(***************************************************************************)

Decided(t) == evalDecision[t] # "pending"

\* a program of the filter calls FreeSpaceGB()
UsesFreeSpace ==
    \/ \E i \in DOMAIN evalIgnores : evalIgnores[i] = "FreeSpaceBelow"
    \/ \E i \in DOMAIN evalRemoves : evalRemoves[i] = "FreeSpaceBelow"

WithoutRaising(expressions) == SelectSeq(expressions, LAMBDA q : q # "Raises")

\* the decision the loop would reach if a program that raises counted as a
\* rule that did not match
DecisionSkippingErrors(t) ==
    LET ignore == CheckTorrentSingleMatchWithReason(t, WithoutRaising(evalIgnores),
                                                    evalFreeAt[t])
        remove == CheckTorrentSingleMatchWithReason(t, WithoutRaising(evalRemoves),
                                                    evalFreeAt[t])
    IN IF ignore.match THEN "ignored"
       ELSE IF remove.match THEN "removed"
       ELSE "noMatch"

\* C20: a program that raises an evaluation error counts as a rule that did
\* not match, and the rules after it are still evaluated: the torrent is
\* classified as the rest of the filter classifies it.
C20_ErrorDoesNotPoisonFilter ==
    \A t \in Hashes : Decided(t) => evalDecision[t] = DecisionSkippingErrors(t)

\* the first remove rule raised on a torrent that the second one matches,
\* and the second one was not run
C20_ErrorEndsEvaluation ==
    \E t \in Hashes :
        /\ evalIgnores = <<>>
        /\ evalRemoves = <<"Raises", "SeedsBelow">>
        /\ evalSeeds[t] = 0
        /\ evalDecision[t] = "evalErr"
        /\ evalRan[t].rem = 1


(***************************************************************************)
(* Properties of the uniqueness classification                             *)
(***************************************************************************)

C19_BothNonUniqueQueuedAsHardlinked ==
    \E h \in Hashes :
        /\ reported[h].seen /\ ~reported[h].foi /\ ~reported[h].hli
        /\ h \in hardlinkedCandidates
        /\ h \notin fileOverlapCandidates


(***************************************************************************)
(* Properties of adapter failures                                          *)
(***************************************************************************)

\* C21: a failed adapter call for one torrent is not fatal: the failure is
\* counted for that torrent, the process goes on, and the torrents the loop
\* has not come to yet are still handled before the run ends.
C21_AdapterFailureNotFatal ==
    /\ relabelPc # "exited"
    /\ \A h \in Hashes :
           relabelOutcome[h] = "failed" => errorRelabelTorrents > 0

\* c.SetTorrentLabel failed on the first torrent of a relabel run and the
\* process ended with a torrent still waiting and no failure counted
C21_RelabelFailureEndsRun ==
    /\ relabelPc = "exited"
    /\ relabelLeft # {}
    /\ errorRelabelTorrents = 0
    /\ \E h \in Hashes : relabelOutcome[h] = "failed"


(***************************************************************************)
(* Properties of the clean summary                                         *)
(***************************************************************************)

\* the removals of a phase that the adapter carried out
RemovedIn(phase) == {c \in removeCalls : c.phase = phase /\ c.removed}

\* C22: the summary of a clean run reports no progress from a removal that
\* failed: a torrent whose removal failed is counted as a failure only, the
\* removed-candidates count has the candidates that were removed, and the
\* initially-removed count (removed minus removed candidates) is the number
\* of removals of phase 1.
C22_SummaryCountsOnlyRemovals ==
    ~flagDryRun =>
        /\ errorRemoveTorrents = Cardinality({c \in removeCalls : ~c.removed})
        /\ hardRemoveTorrents = Cardinality(RemovedIn(1) \cup RemovedIn(2))
        /\ removedCandidates = Cardinality(RemovedIn(2))
        /\ hardRemoveTorrents - removedCandidates = Cardinality(RemovedIn(1))

\* the removal of a candidate failed and the summary still counts it among
\* the removed candidates, leaving a negative initially-removed count
C22_FailedCandidateCounted ==
    /\ CleanDone /\ ~flagDryRun
    /\ \E c \in removeCalls : c.phase = 2 /\ ~c.removed
    /\ removedCandidates > Cardinality(RemovedIn(2))
    /\ hardRemoveTorrents - removedCandidates < 0


(***************************************************************************)
(* Properties of the iteration order                                       *)
(***************************************************************************)

\* what the filter made of a torrent, read off the way the loops left it
FilterClass(v) ==
    IF v \in {"evalErr", "ignored", "noMatch"} THEN v ELSE "remove"

\* the outcome of a run: the torrents removed, each with its deleteData
Outcome(calls) == {<<c.hash, c.deleteData>> : c \in {d \in calls : d.removed}}

\* the second run is over and met the same world as the first: the filter
\* classified every torrent alike, the oracle did not answer differently
\* where both runs consulted it, and no removal failed in either run
SameWorldTwice ==
    /\ firstClean # <<>>
    /\ CleanDone
    /\ \A h \in Hashes :
           /\ FilterClass(firstClean[1].verdict[h]) = FilterClass(verdict[h])
           /\ \/ firstClean[1].regState[h] = "Unknown"
              \/ regState[h] = "Unknown"
              \/ firstClean[1].regState[h] = regState[h]
    /\ \A c \in firstClean[1].removeCalls \cup removeCalls : c.removed

\* C23: the outcome of a clean run, the torrents removed and for each of
\* them whether its data is deleted, is the same in whatever order the
\* torrent map and the candidate maps are ranged over.
C23_OutcomeIndependentOfOrder ==
    SameWorldTwice => Outcome(firstClean[1].removeCalls) = Outcome(removeCalls)

\* two runs over the same snapshot removed the same torrent, one with its
\* data and one without
C23_DataDeletedInOneOrderOnly ==
    /\ SameWorldTwice
    /\ \E c1 \in firstClean[1].removeCalls : \E c2 \in removeCalls :
           c1.hash = c2.hash /\ c1.deleteData # c2.deleteData


(***************************************************************************)
(* Properties of a failed removal                                          *)
(***************************************************************************)

\* the hardlink index holds every path of h that can be stat'ed
InHardlinkIndex(h) ==
    \A f \in files[h] : inode[f] # 0 => f \in hfm[inode[f]]

\* the file-overlap index holds h under every path it declares
InFileOverlapIndex(h) == \A p \in files[h] : h \in tfm[p]

\* C24: a torrent that the adapter failed to remove stays registered in the
\* file-overlap index and in the hardlink index for the rest of the run, so
\* that no torrent sharing a path with it is afterwards removed as unique.
C24_FailedRemovalStaysIndexed ==
    \A c \in removeCalls :
        ~c.removed =>
            /\ InFileOverlapIndex(c.hash)
            /\ (mapHardlinks /\ downloaded[c.hash]) => InHardlinkIndex(c.hash)
            /\ \A o \in Hashes \ {c.hash} :
                   files[o] \cap files[c.hash] # {} => verdict[o] # "removedUnique"

\* the removal of a hardlinked torrent failed in phase 1, the hardlink
\* index had dropped its paths before the call, and the other torrent was
\* then removed as unique together with its data
C24_FailedRemovalLeavesHardlinkIndex ==
    \E c, d \in removeCalls :
        /\ c.hash # d.hash
        /\ ~c.removed /\ c.phase = 1 /\ ~c.hliUnique /\ c.foiUnique
        /\ c.hash \in clientTorrents
        /\ ~InHardlinkIndex(c.hash)
        /\ d.removed /\ d.isUnique /\ d.deleteData


(***************************************************************************)
(* Properties of a torrent with a missing file                             *)
(***************************************************************************)

\* h shares no declared path and no file identity with another torrent
SharesNothing(h) ==
    \A o \in Hashes \ {h} :
        /\ files[o] \cap files[h] = {}
        /\ \A f \in files[h] : \A g \in files[o] : inode[f] # 0 => inode[f] # inode[g]

\* C25: with the real hardlink index, a downloaded torrent that is not
\* ignored, matches Remove and shares no declared path and no file identity
\* with another torrent is removed by the end of the run when no adapter
\* call fails, also when one of its files is missing on disk.
C25_LoneTorrentRemoved ==
    (CleanDone /\ PlainRun /\ mapHardlinks) =>
        \A h \in Hashes :
            (downloaded[h] /\ FilterClass(verdict[h]) = "remove" /\ SharesNothing(h))
                => h \notin clientTorrents

\* a registered torrent on its own, with a file that cannot be stat'ed, was
\* queued as hardlinked and is still there at the end of the run
C25_MissingFileNeverRemoved ==
    \E h \in Hashes :
        /\ CleanDone /\ PlainRun /\ mapHardlinks
        /\ downloaded[h] /\ SharesNothing(h)
        /\ \E f \in files[h] : inode[f] = 0
        /\ h \in hardlinkedCandidates
        /\ verdict[h] = "stillNotUnique"
        /\ h \in clientTorrents


(***************************************************************************)
(* Properties of the upload limit over two retag runs                      *)
(***************************************************************************)

\* the first run set the upload limit of h on the client
LimitAppliedFirst(h) ==
    /\ firstRun # <<>>
    /\ firstRun[1].outcome[h] = "applied"
    /\ \E c \in firstRun[1].calls : c.op = "SetUploadLimit" /\ c.hash = h

\* C26: once a retag run has applied its scheduled upload limit to a
\* torrent, a second run with the same rules and the same matches schedules
\* no upload-limit change for that torrent.
C26_SecondRunSchedulesNoLimit ==
    \A h \in RetagTorrents :
        (LimitAppliedFirst(h) /\ h \in retagPending) => ShouldRetag(h).UploadKb = <<>>

\* two matching rules with limits of 1 and 2 KiB/s: the first run set 1, the
\* second run schedules 2
C26_LimitFlipsBetweenRules ==
    \E h \in RetagTorrents :
        /\ LimitAppliedFirst(h) /\ h \in retagPending
        /\ \A i \in DOMAIN tagRules : tagRules[i].UploadKb \in {<<1>>, <<2>>}
        /\ \A i \in DOMAIN tagRules : ruleMatch[h][i]
        /\ UpLimit[h] = 1024
        /\ ShouldRetag(h).UploadKb = <<2>>


(***************************************************************************)
(* Properties of the order of the two phases                               *)
(***************************************************************************)

\* the NoInstances test of the candidate loops has been made for h
Rechecked(h) == verdict[h] \in {"stillNotUnique", "removedCandidate"}

\* C27: once the first candidate has been re-checked, the phase-1 loop has
\* visited every torrent: none is pending, and every removal of a unique
\* torrent has been made.
C27_PhaseOneCompleteBeforeRecheck ==
    (\E o \in Hashes : Rechecked(o)) =>
        /\ \A h \in torrents : verdict[h] # "pending"
        /\ \A h \in Hashes : verdict[h] = "removedUnique" => h \notin torrents

\* a unique torrent was removed in phase 1 and a candidate re-checked after
C27_Witness ==
    /\ pc = "phase2"
    /\ \E h, o \in Hashes : verdict[h] = "removedUnique" /\ Rechecked(o)


(***************************************************************************)
(* Properties of the adapter's RemoveTorrent                               *)
(***************************************************************************)
RemovalOrder == <<"pause", "resume", "reannounce", "delete">>

\* the calls made for torrent h, in the order they were made
ApiCallsFor(h) == SelectSeq(apiCalls, LAMBDA c : c.hash = h)

\* C28: the calls an adapter makes for one torrent are pause, resume,
\* reannounce, delete in this order, each at most once; a delete call comes
\* after the three others, and a removed torrent has had all four.
C28_CallsInRemovalOrder ==
    \A h \in Hashes :
        LET q == ApiCallsFor(h)
        IN /\ Len(q) <= Len(RemovalOrder)
           /\ \A i \in DOMAIN q : q[i].op = RemovalOrder[i]
           /\ adapterOutcome[h] = "removed" => Len(q) = Len(RemovalOrder)

\* one torrent is removed, another has had calls made for it as well
C28_Witness ==
    \E h, o \in Hashes :
        /\ h # o
        /\ adapterOutcome[h] = "removed"
        /\ Len(ApiCallsFor(h)) = Len(RemovalOrder)
        /\ ApiCallsFor(o) # <<>>


(***************************************************************************)
(* Properties of the PTP plugin's cache                                    *)
(***************************************************************************)

\* the answer the cached hash set gives to query g
FromCache(g) == IF ToUpper(ptpHash[g]) \in ptpCache THEN "true" ELSE "false"

\* C29: whatever the interleaving of the goroutines, the endpoint is asked
\* at most once; no query returns before it has been asked, the cache holds
\* the list it sent, and every query that returns is answered from the cache.
C29_FetchedOnceThenCached ==
    /\ ptpFetches <= 1
    /\ (ptpFetched /\ ~ptpFailed) => ptpCache = {ToUpper(h) : h \in ptpServer.list}
    /\ \A g \in PtpQueries :
           ptpPc[g] = "returned" => (ptpFetches = 1 /\ ptpAnswer[g] = FromCache(g))

\* the list was fetched by one goroutine, which was answered true from the
\* cache, and another goroutine holds the lock and finds the list fetched
C29_Witness ==
    \E g, o \in PtpQueries :
        /\ ptpPc[g] = "returned" /\ ptpAnswer[g] = "true"
        /\ ptpPc[o] = "locked" /\ ptpFetched /\ ptpFetches = 1
        /\ ToUpper(ptpHash[o]) \in ptpCache


(***************************************************************************)
(* Properties of the worker pool                                           *)
(***************************************************************************)

\* the files whose worker goroutine has been started and has not returned
RunningWorkers == {p \in DOMAIN worker : worker[p] \in {"check", "stat", "remove"}}

\* C30: at no time are more than maxWorkers file workers running; each of
\* them holds one token of workerSem.
C30_AtMostMaxWorkersRunning ==
    /\ Cardinality(RunningWorkers) <= maxWorkers
    /\ workerSem = Cardinality(RunningWorkers)

\* maxWorkers workers are running and the next file of the batch waits for
\* a token
C30_Witness ==
    /\ orphanPc = "spawn"
    /\ batch # <<>>
    /\ Cardinality(RunningWorkers) = maxWorkers
    /\ workerSem = maxWorkers

====
